---- MODULE Spec2Model ----
(***************************************************************************)
(* Response-generation subsystem of the Birthday Cake Planner backend:     *)
(* AIConfigurationManager (ai_config.py), AIService (ai_service.py) and    *)
(* the administrative route that updates a subject (admin.py).             *)
(*                                                                         *)
(* Time is counted in minutes.  Python dictionaries are functions whose    *)
(* DOMAIN is the set of keys present; an Optional value is a sequence of   *)
(* length 0 (None) or 1.                                                   *)
(***************************************************************************)
EXTENDS Integers, Sequences, FiniteSets, TLC

VARIABLES now, ops, subject_configs, fallback_responses,
          connectivity_status, last_sync_attempt, response_cache,
          providers, config_file, call, connRet, lastLive, sync

vars ==
  << now, ops, subject_configs, fallback_responses, connectivity_status,
     last_sync_attempt, response_cache, providers, config_file, call, connRet,
     lastLive, sync >>

----------------------------------------------------------------------------
(* Bounds of the model *)

(* The number of requests and clock advances in a behaviour: calls of     *)
(* generate_response, configuration updates and ticks of the clock.        *)
MaxOps == 3

(* Sweeps started in a behaviour *)
MaxSyncs == 1

(* Calls and clock advances in a behaviour of the racing request threads *)
MaxRaceOps == 4

(* Program constants *)

CoolDownMinutes == 5
MinutesPerHour == 60
DefaultRetryAttempts == 3
DefaultRetryDelay == 1
DefaultCacheDurationHours == 24
DefaultMaxTokens == 150
DefaultTemperatureTenths == 8
SyncWeight == 1
DatetimeSpanHours == 87649415

----------------------------------------------------------------------------
(* Enumerations *)

AIProvider == {"openai", "anthropic", "local", "fallback"}

(* The members of SubjectMatter the model draws subjects from: one with    *)
(* a default configuration and authored fallback responses, one with       *)
(* neither.                                                                *)
SubjectMatter == {"task_completion", "goal_setting"}

DefaultSubjects == {"task_completion"}

(* Minutes the clock may advance by in one step: the cool-down window and *)
(* the default cache duration.                                             *)
Deltas == {CoolDownMinutes, DefaultCacheDurationHours * MinutesPerHour}

----------------------------------------------------------------------------
(* Context mappings: a dict is a sequence of <<key, value>> pairs in       *)
(* insertion order, keys distinct.                                         *)

CtxEmpty == << >>
CtxCelebratoryGeneral == << <<"mood", "celebratory">>, <<"context_type", "general">> >>

Contexts == {CtxEmpty, CtxCelebratoryGeneral}

KeyOrder == <<"context_type", "mood", "task_title">>

CtxKeys(ctx) == {ctx[i][1] : i \in DOMAIN ctx}

CtxValue(ctx, k) == LET i == CHOOSE j \in DOMAIN ctx : ctx[j][1] = k IN ctx[i][2]

(* dict.get(key, default) *)
CtxGet(ctx, k, default) == IF k \in CtxKeys(ctx) THEN CtxValue(ctx, k) ELSE default

(* json.dumps(context, sort_keys=True): the pairs in key order *)
SortKeys(ctx) ==
  LET present(k) == k \in CtxKeys(ctx)
      ks == SelectSeq(KeyOrder, present)
  IN [i \in 1..Len(ks) |-> <<ks[i], CtxValue(ctx, ks[i])>>]

(* _generate_cache_key over the dict in its insertion order *)
GenerateCacheKey_Unsorted(subject, ctx) == <<subject, ctx>>

(* _generate_cache_key: md5 of "<subject>:<sorted json>", taken as the     *)
(* string it hashes.                                                       *)
GenerateCacheKey(subject, ctx) == <<subject, SortKeys(ctx)>>

----------------------------------------------------------------------------
(* Configuration records *)

DefaultOpenAI ==
  [provider |-> "openai", max_tokens |-> DefaultMaxTokens,
   temperature |-> DefaultTemperatureTenths,
   retry_attempts |-> DefaultRetryAttempts, retry_delay |-> DefaultRetryDelay]

FallbackConfig ==
  [provider |-> "fallback", max_tokens |-> DefaultMaxTokens, temperature |-> 7,
   retry_attempts |-> DefaultRetryAttempts, retry_delay |-> DefaultRetryDelay]

(* A context template is its sequence of replacement fields, "" standing   *)
(* for a positional field "{}"; empty tells the empty string.              *)
TplTaskCompletion ==
  [empty |-> FALSE, fields |-> <<"task_title", "duration", "difficulty", "streak">>]
TplPositional == [empty |-> FALSE, fields |-> <<"">>]
TplNone == [empty |-> TRUE, fields |-> << >>]

DefaultTemplate(s) == TplTaskCompletion

(* _create_default_configuration *)
CreateDefaultConfiguration ==
  [s \in DefaultSubjects |->
     [subject |-> s, primary_model |-> DefaultOpenAI, fallback_model |-> <<FallbackConfig>>,
      context_template |-> DefaultTemplate(s),
      cache_responses |-> TRUE, cache_duration_hours |-> DefaultCacheDurationHours]]

(* _load_fallback_responses: the texts without their emoji *)
LoadFallbackResponses ==
  [s \in {"task_completion"} |->
     << [subject |-> "task_completion", context_type |-> "general", mood |-> "celebratory",
         response_text |-> "Sweet success! You've earned another slice of productivity! Time to celebrate!", animation_type |-> "celebration_bounce", weight |-> 3],
        [subject |-> "task_completion", context_type |-> "streak", mood |-> "excited",
         response_text |-> "Amazing streak! You're on a roll that's sweeter than my frosting!", animation_type |-> "confetti_explosion", weight |-> 2],
        [subject |-> "task_completion", context_type |-> "difficult", mood |-> "proud",
         response_text |-> "Incredible! You conquered that challenge like a true cake master!", animation_type |-> "victory_dance", weight |-> 2] >>]

----------------------------------------------------------------------------
(* Connectivity tracker *)

(* _initialize_connectivity_status that leaves the first check due *)
InitializeConnectivityStatus_Due(t) ==
  [status |-> [p \in AIProvider \ {"fallback"} |-> TRUE],
   last |-> [p \in AIProvider \ {"fallback"} |-> t - CoolDownMinutes]]

(* _initialize_connectivity_status *)
InitializeConnectivityStatus(t) ==
  [status |-> [p \in AIProvider \ {"fallback"} |-> TRUE],
   last |-> [p \in AIProvider \ {"fallback"} |-> t]]

(* check_connectivity with the window closed at its end: a check exactly   *)
(* five minutes after the last one still answers from the record.          *)
CheckConnectivity_LateWindow(provider, st, la, t, env) ==
  IF provider = "fallback"
    THEN [ret |-> TRUE, status |-> st, last |-> la, probed |-> FALSE]
    ELSE IF t - la[provider] <= CoolDownMinutes
      THEN [ret |-> st[provider], status |-> st, last |-> la, probed |-> FALSE]
      ELSE LET connected == IF provider = "openai" THEN env ELSE TRUE
           IN [ret |-> connected,
               status |-> [st EXCEPT ![provider] = connected],
               last |-> [la EXCEPT ![provider] = t],
               probed |-> TRUE]

(* check_connectivity(provider) at time t; env tells whether the           *)
(* environment holds both OPENAI_API_KEY and OPENAI_API_BASE.              *)
CheckConnectivity(provider, st, la, t, env) ==
  IF provider = "fallback"
    THEN [ret |-> TRUE, status |-> st, last |-> la, probed |-> FALSE]
    ELSE IF t - la[provider] < CoolDownMinutes
      THEN [ret |-> st[provider], status |-> st, last |-> la, probed |-> FALSE]
      ELSE LET connected == IF provider = "openai" THEN env ELSE TRUE
           IN [ret |-> connected,
               status |-> [st EXCEPT ![provider] = connected],
               last |-> [la EXCEPT ![provider] = t],
               probed |-> TRUE]

----------------------------------------------------------------------------
(* Response cache *)

(* datetime.utcnow() + timedelta(hours=duration_hours) raises             *)
(* OverflowError: a duration longer than the whole hours between           *)
(* datetime.min and datetime.max leaves the range of datetime at any time. *)
CacheWriteRaises(duration_hours) == duration_hours > DatetimeSpanHours

(* cache_response(cache_key, response, duration_hours) at time t *)
CacheResponse(cache, key, response, duration_hours, t) ==
  [k \in (DOMAIN cache) \cup {key} |->
     IF k = key
       THEN [response |-> response, expiry |-> t + duration_hours * MinutesPerHour]
       ELSE cache[k]]

(* get_cached_response that still serves an entry at its expiry instant *)
GetCachedResponse_AtExpiry(cache, key, t) ==
  IF key \in DOMAIN cache /\ t <= cache[key].expiry
    THEN [ret |-> <<cache[key].response>>, cache |-> cache]
    ELSE IF key \in DOMAIN cache
      THEN [ret |-> << >>, cache |-> [k \in (DOMAIN cache) \ {key} |-> cache[k]]]
      ELSE [ret |-> << >>, cache |-> cache]

(* get_cached_response(cache_key) at time t: the value returned (None or   *)
(* the stored dict) and the cache it leaves.                               *)
GetCachedResponse(cache, key, t) ==
  IF key \in DOMAIN cache /\ t < cache[key].expiry
    THEN [ret |-> <<cache[key].response>>, cache |-> cache]
    ELSE IF key \in DOMAIN cache
      THEN [ret |-> << >>, cache |-> [k \in (DOMAIN cache) \ {key} |-> cache[k]]]
      ELSE [ret |-> << >>, cache |-> cache]

(* clear_cache *)
ClearedCache == [k \in {} |-> 0]

----------------------------------------------------------------------------
(* AIResponse *)

InitParams == {"text", "animation_type", "mood", "source", "metadata"}

(* AIResponse.to_dict: the six keys of the dict *)
ToDict(r) ==
  [text |-> r.text, animation_type |-> r.animation_type, mood |-> r.mood,
   source |-> r.source, metadata |-> r.metadata, timestamp |-> r.timestamp]

(* The instant of construction of an AIResponse is not told apart *)
UtcNow(t) == "utcnow"

(* AIResponse called with keyword arguments kwargs at time t: a keyword that __init__ does not take   *)
(* raises TypeError.                                                       *)
AIResponseFromKwargs(kwargs, t) ==
  IF DOMAIN kwargs \subseteq InitParams
    THEN [raised |-> FALSE, exc |-> "",
          value |-> <<[text |-> kwargs.text, animation_type |-> kwargs.animation_type,
                       mood |-> kwargs.mood, source |-> kwargs.source,
                       metadata |-> kwargs.metadata, timestamp |-> UtcNow(t)]>>]
    ELSE [raised |-> TRUE, exc |-> "TypeError", value |-> << >>]

(* The completions the provider may send back; the last one is empty *)
Texts == {"Amazing job, keep the streak!", "Well done", ""}

(* What makes a call of the provider raise: the deadline of wait_for, an   *)
(* error of the transport, a response without a completion to read.        *)
FailureKinds == {"timeout", "transport", "absent"}

(* OpenAIProvider.generate_response, its two handlers: every failure       *)
(* leaves as AIServiceError.                                               *)
ProviderRaises(kind) ==
  IF kind = "timeout" THEN "AIServiceError" ELSE "AIServiceError"

(* The completion is unusable: empty, or not there *)
MalformedText(text) == text = ""

MalformedFailure(kind) == kind = "absent"

HasKeyword(text, group) ==
  /\ group = "excited"
  /\ text = "Amazing job, keep the streak!"

(* OpenAIProvider._parse_response_metadata *)
ParseResponseMetadata(text) ==
  IF HasKeyword(text, "excited") THEN <<"excited", "celebration_bounce">>
  ELSE IF HasKeyword(text, "gentle") THEN <<"gentle", "gentle_sway">>
  ELSE IF HasKeyword(text, "celebratory") THEN <<"celebratory", "confetti_explosion">>
  ELSE <<"cheerful", "bounce">>

(* OpenAIProvider.generate_response on success *)
ProviderResponse(text, t) ==
  LET ma == ParseResponseMetadata(text)
  IN [text |-> text, animation_type |-> ma[2], mood |-> ma[1], source |-> "ai",
      metadata |-> [model |-> "gpt-3.5-turbo", provider |-> "openai"],
      timestamp |-> UtcNow(t)]

----------------------------------------------------------------------------
(* Static fallback selection *)

RECURSIVE SumWeights(_)
SumWeights(rs) == IF rs = << >> THEN 0 ELSE Head(rs).weight + SumWeights(Tail(rs))

GenericFallback(subject, context_type) ==
  [subject |-> subject, context_type |-> context_type, mood |-> "cheerful",
   response_text |-> "Sweet! Let's keep the productivity celebration going!",
   animation_type |-> "bounce", weight |-> 1]

(* The two filters in the other order: mood first, context type second *)
FilterResponses_MoodFirst(responses, context_type, mood) ==
  LET moodMatch(r) == r.mood = mood
      byMood == SelectSeq(responses, moodMatch)
      filtered == IF mood # "" /\ byMood # << >> THEN byMood ELSE responses
      ctMatch(r) == r.context_type = context_type
      byCt == SelectSeq(filtered, ctMatch)
  IN IF byCt = << >> THEN filtered ELSE byCt

(* The two filters of get_fallback_response *)
FilterResponses(responses, context_type, mood) ==
  LET ctMatch(r) == r.context_type = context_type
      byCt == SelectSeq(responses, ctMatch)
      filtered == IF byCt = << >> THEN responses ELSE byCt
      moodMatch(r) == r.mood = mood
      byMood == SelectSeq(filtered, moodMatch)
  IN IF mood # "" /\ byMood # << >> THEN byMood ELSE filtered

(* get_fallback_response without the generic response for a subject that   *)
(* has no authored ones.                                                   *)
GetFallbackResponse_NoGeneric(lib, subject, context_type, mood) ==
  LET responses == IF subject \in DOMAIN lib THEN lib[subject] ELSE << >>
      filtered == FilterResponses(responses, context_type, mood)
  IN IF SumWeights(filtered) <= 0
       THEN [raised |-> TRUE, choices |-> {}]
       ELSE [raised |-> FALSE,
             choices |-> {filtered[i] : i \in {j \in DOMAIN filtered : filtered[j].weight > 0}}]

(* get_fallback_response: the responses random.choices may select, or the  *)
(* ValueError it raises when the weights do not sum to a positive number.  *)
GetFallbackResponse(lib, subject, context_type, mood) ==
  LET responses == IF subject \in DOMAIN lib THEN lib[subject] ELSE << >>
      filtered == FilterResponses(responses, context_type, mood)
  IN IF responses = << >>
       THEN [raised |-> FALSE, choices |-> {GenericFallback(subject, context_type)}]
       ELSE IF SumWeights(filtered) <= 0
         THEN [raised |-> TRUE, choices |-> {}]
         ELSE [raised |-> FALSE,
               choices |-> {filtered[i] : i \in {j \in DOMAIN filtered : filtered[j].weight > 0}}]

(* AIService._get_fallback_response: the AIResponse built from a selected  *)
(* fallback.                                                               *)
StaticAIResponse(fb, context_type, t) ==
  [text |-> fb.response_text, animation_type |-> fb.animation_type, mood |-> fb.mood,
   source |-> "fallback",
   metadata |-> [fallback_reason |-> "ai_unavailable", context_type |-> context_type],
   timestamp |-> UtcNow(t)]

GetFallbackAIResponses(lib, subject, ctx, t) ==
  LET context_type == CtxGet(ctx, "context_type", "general")
      mood == CtxGet(ctx, "mood", "cheerful")
      sel == GetFallbackResponse(lib, subject, context_type, mood)
  IN [raised |-> sel.raised,
      choices |-> {StaticAIResponse(fb, context_type, t) : fb \in sel.choices}]

----------------------------------------------------------------------------
(* Prompt formatting *)

RECURSIVE FormatFields(_, _)
(* str.format over the context: the first replacement field that cannot be       *)
(* filled decides the exception.                                           *)
FormatFields(fields, ctx) ==
  IF fields = << >> THEN "ok"
  ELSE IF Head(fields) = "" THEN "IndexError"
  ELSE IF Head(fields) \notin CtxKeys(ctx) THEN "KeyError"
  ELSE FormatFields(Tail(fields), ctx)

(* AIService._format_user_prompt: "ok" when a prompt is returned (the      *)
(* KeyError is caught), else the exception that escapes.                   *)
FormatUserPrompt(cfgs, subject, ctx) ==
  IF subject \notin DOMAIN cfgs \/ cfgs[subject].context_template.empty
    THEN "ok"
    ELSE LET r == FormatFields(cfgs[subject].context_template.fields, ctx)
         IN IF r = "KeyError" THEN "ok" ELSE r

----------------------------------------------------------------------------
(* Persistence *)

(* _save_configuration: asdict leaves the AIProvider member in the dict,   *)
(* json.dump raises on it after the text before it is written, and the     *)
(* exception is logged; with no subject there is nothing to raise on.      *)
SaveConfiguration(cfgs) == IF DOMAIN cfgs = {} THEN "valid" ELSE "truncated"

(* _load_configuration on the file the last save left: a missing file and  *)
(* a file json.load cannot read both end in the default configuration; the *)
(* only file a save completes is the one without subjects.                 *)
LoadConfiguration(file) ==
  IF file \in {"absent", "truncated"}
    THEN CreateDefaultConfiguration
    ELSE [s \in {} |-> 0]

----------------------------------------------------------------------------
(* AIService._initialize_providers: a client for OPENAI when some primary  *)
(* model uses it.                                                          *)
InitializeProviders(cfgs) ==
  IF \E s \in DOMAIN cfgs : cfgs[s].primary_model.provider = "openai"
    THEN {"openai"} ELSE {}

(* One generate_response call.  A call is suspended only where the code    *)
(* awaits: in the provider call of the primary model (with the sleep that  *)
(* precedes a retry) and in the provider call of the secondary model.      *)

Callers == {"c1"}

(* The request threads of the server: each runs its coroutine on an event  *)
(* loop of its own (admin.py run_async), so two generate_response calls    *)
(* can be under way at once.                                               *)
Threads == {"c1", "c2"}

IdleCall ==
  [pc |-> "idle", id |-> 0, at |-> 0,
   subject |-> "task_completion", context |-> CtxEmpty, force_ai |-> FALSE,
   cfgRef |-> "store", cfgOld |-> << >>, attempt |-> 0, n |-> 0,
   outcome |-> "none", result |-> << >>, exc |-> "",
   trace |-> << >>, sleeps |-> << >>,
   unconfigured |-> FALSE, validAtStart |-> FALSE, prior |-> << >>,
   prevFailed |-> FALSE, recordedDown |-> FALSE, malformed |-> FALSE,
   cfgStart |-> << >>, req |-> << >>]

----------------------------------------------------------------------------
(* sync_with_ai: its data *)

(* for subject in SubjectMatter: the members in their order of definition *)
SubjectOrder == <<"task_completion", "goal_setting">>

(* scenarios: the three dicts, their keys in the order they are written *)
Scenarios ==
  << << <<"context_type", "general">>, <<"mood", "cheerful">> >>,
     << <<"context_type", "celebration">>, <<"mood", "excited">> >>,
     << <<"context_type", "encouragement">>, <<"mood", "supportive">> >> >>

(* The coroutine of the sweep: where it stands (subject si, scenario ki),  *)
(* sync_results so far, the generate_response calls it has made, and the   *)
(* number of sweeps started.                                               *)
IdleSync ==
  [pc |-> "idle", si |-> 1, ki |-> 1, report |-> << >>, calls |-> << >>, runs |-> 0]

(* The call slot the sweep's generate_response calls run in *)
SyncCaller == "c1"

(* A sweep that also keeps what the secondary model wrote *)
SyncAppends_AnyModel(response) == response.source \in {"ai", "fallback_ai"}

(* if response.source == "ai" *)
SyncAppends(response) == response.source = "ai"

(* FallbackResponse(subject, scenario["context_type"], response.mood,      *)
(* response.text, response.animation_type, weight=1)                       *)
SyncFallback(subject, scenario, response) ==
  [subject |-> subject, context_type |-> CtxValue(scenario, "context_type"),
   mood |-> response.mood, response_text |-> response.text,
   animation_type |-> response.animation_type, weight |-> SyncWeight]

(* add_fallback_response that skips a response the list already holds *)
AddFallbackResponse_Dedup(lib, fb) ==
  LET old == IF fb.subject \in DOMAIN lib THEN lib[fb.subject] ELSE << >>
  IN [x \in (DOMAIN lib) \cup {fb.subject} |->
        IF x = fb.subject
          THEN IF \E i \in DOMAIN old : old[i] = fb THEN old ELSE Append(old, fb)
          ELSE lib[x]]

(* add_fallback_response *)
AddFallbackResponse(lib, fb) ==
  LET old == IF fb.subject \in DOMAIN lib THEN lib[fb.subject] ELSE << >>
  IN [x \in (DOMAIN lib) \cup {fb.subject} |->
        IF x = fb.subject THEN Append(old, fb) ELSE lib[x]]

(* sync_results[subject.value] = value *)
Reported(report, subject, value) ==
  IF \E i \in DOMAIN report : report[i][1] = subject
    THEN [i \in DOMAIN report |->
            IF report[i][1] = subject THEN <<subject, value>> ELSE report[i]]
    ELSE Append(report, <<subject, value>>)

----------------------------------------------------------------------------
Count(trace, e) == Cardinality({i \in DOMAIN trace : trace[i] = e})

Log(c, e) == [c EXCEPT !.trace = Append(@, e)]

Returned(c, r) == [c EXCEPT !.pc = "done", !.outcome = "returned", !.result = <<r>>]

Raised(c, e) == [c EXCEPT !.pc = "done", !.outcome = "raised", !.exc = e]

(* The config object a call holds: the one in the store, unless the store  *)
(* entry was replaced by another object after the call read it.            *)
ConfigOf(c, cfgs) == IF c.cfgRef = "store" THEN cfgs[c.subject] ELSE c.cfgOld[1]

(* return self._get_fallback_response(subject, context) *)
StaticFinish(c, lib, t) ==
  LET fr == GetFallbackAIResponses(lib, c.subject, c.context, t)
  IN IF fr.raised
       THEN {Raised(Log(c, "static"), "ValueError")}
       ELSE {Returned(Log(c, "static"), r) : r \in fr.choices}

(* _try_fallback_model up to its await *)
TryFallbackModel(c, cfgv, cfgs, provs, lib, t) ==
  IF /\ cfgv.fallback_model # << >>
     /\ cfgv.fallback_model[1].provider # "fallback"
     /\ cfgv.fallback_model[1].provider \in provs
    THEN IF FormatUserPrompt(cfgs, c.subject, c.context) = "ok"
           THEN {[c EXCEPT !.pc = "secondary"]}
           ELSE StaticFinish(Log(c, "unexpected"), lib, t)
    ELSE StaticFinish(Log(c, "secondary:none"), lib, t)

(* _generate_ai_response whose formatting error is handled like a model    *)
(* error, by the fallback step.                                            *)
GenerateAIResponseStart_ViaSecondary(c, cfgv, cfgs, provs, lib, t) ==
  IF FormatUserPrompt(cfgs, cfgv.subject, c.context) # "ok"
    THEN {[Log(c, "unexpected") EXCEPT !.pc = "secondary"]}
    ELSE IF cfgv.primary_model.provider \notin provs \/ cfgv.primary_model.retry_attempts <= 0
      THEN TryFallbackModel(c, cfgv, cfgs, provs, lib, t)
      ELSE {[c EXCEPT !.pc = "primary", !.attempt = 0,
                      !.n = cfgv.primary_model.retry_attempts]}

(* _generate_ai_response up to its first await, with the handlers of       *)
(* generate_response for what it raises before that.                       *)
GenerateAIResponseStart(c, cfgv, cfgs, provs, lib, t) ==
  IF cfgv.primary_model.provider \notin provs
    THEN TryFallbackModel(c, cfgv, cfgs, provs, lib, t)
    ELSE IF FormatUserPrompt(cfgs, cfgv.subject, c.context) # "ok"
      THEN StaticFinish(Log(c, "unexpected"), lib, t)
      ELSE IF cfgv.primary_model.retry_attempts <= 0
        THEN TryFallbackModel(c, cfgv, cfgs, provs, lib, t)
        ELSE {[c EXCEPT !.pc = "primary", !.attempt = 0,
                        !.n = cfgv.primary_model.retry_attempts]}

(* The cache test without its force_ai conjunct *)
ReadsCache_IgnoresForce(force_ai, cfgv) == cfgv.cache_responses

(* if not force_ai and config.cache_responses *)
ReadsCache(force_ai, cfgv) == ~force_ai /\ cfgv.cache_responses

(* What the history says of an earlier live response for this key: its     *)
(* text, while it is younger than the cache duration it was stored with.   *)
PriorLive(key, cfgs, s, t) ==
  IF /\ lastLive # << >>
     /\ lastLive[1].key = key
     /\ s \in DOMAIN cfgs
     /\ cfgs[s].cache_responses
     /\ t - lastLive[1].at < lastLive[1].hours * MinutesPerHour
    THEN <<lastLive[1].text>>
    ELSE << >>

(* The connectivity test of generate_response: whether the call goes to    *)
(* the fallback step without attempting the primary model.                 *)
SkipsPrimary_Never(force_ai, provider_available) == FALSE

SkipsPrimary_IgnoresForce(force_ai, provider_available) == ~provider_available

SkipsPrimary(force_ai, provider_available) == ~force_ai /\ ~provider_available

(* The caller's previous call, for the same subject, returned a static     *)
(* response after its primary model had failed.                            *)
PreviousFailed(c, s) ==
  /\ c.pc = "done"
  /\ c.subject = s
  /\ c.outcome = "returned"
  /\ c.result[1].source = "fallback"
  /\ Count(c.trace, "primary:fail") >= 1

(* The tracker records the primary provider of subject s as unreachable *)
RecordedDown(s, cfgs, st) ==
  /\ s \in DOMAIN cfgs
  /\ cfgs[s].primary_model.provider \in DOMAIN st
  /\ ~st[cfgs[s].primary_model.provider]

(* What check_connectivity last returned for a provider *)
Tag(b) == IF b THEN "up" ELSE "down"

(* The record of call number id of caller p as it enters generate_response *)
BaseCall(p, id, s, ctx, force_ai) ==
  LET key == GenerateCacheKey(s, ctx)
  IN [IdleCall EXCEPT !.id = id, !.at = now, !.subject = s, !.context = ctx, !.force_ai = force_ai,
                      !.prior = PriorLive(key, subject_configs, s, now),
                      !.cfgStart = IF s \in DOMAIN subject_configs
                                     THEN <<subject_configs[s]>> ELSE << >>,
                      !.prevFailed = PreviousFailed(call[p], s),
                      !.recordedDown = RecordedDown(s, subject_configs,
                                                    connectivity_status),
                      !.validAtStart =
                         /\ key \in DOMAIN response_cache
                         /\ now < response_cache[key].expiry]

(* generate_response from line 223, after a cache read that left cache1    *)
(* and returned nothing, to its first await or its return.                 *)
AfterCacheRead(p, c1, cfgv, cache1, force_ai, env) ==
  LET prov == cfgv.primary_model.provider
      conn == CheckConnectivity(prov, connectivity_status,
                                last_sync_attempt, now, env)
      c2 == IF force_ai THEN c1
            ELSE Log(c1, IF conn.ret THEN "conn:up" ELSE "conn:down")
  IN /\ response_cache' = cache1
     /\ IF force_ai
          THEN UNCHANGED <<connectivity_status, last_sync_attempt, connRet>>
          ELSE /\ connectivity_status' = conn.status
               /\ last_sync_attempt' = conn.last
               /\ connRet' = IF prov = "fallback" THEN connRet
                              ELSE [connRet EXCEPT ![prov] = Tag(conn.ret)]
     /\ \E c3 \in (IF SkipsPrimary(force_ai, conn.ret)
                     THEN TryFallbackModel(c2, cfgv, subject_configs,
                                           providers, fallback_responses, now)
                     ELSE GenerateAIResponseStart(c2, cfgv, subject_configs,
                                           providers, fallback_responses, now)) :
           call' = [call EXCEPT ![p] = c3]

(* generate_response from its entry to its first await or its return, as   *)
(* call number id of caller p.                                             *)
GenerateResponseBody(p, id, s, ctx, force_ai, env) ==
  /\ call[p].pc \in {"idle", "done"}
  /\ LET key == GenerateCacheKey(s, ctx)
         base == BaseCall(p, id, s, ctx, force_ai)
     IN IF s \notin DOMAIN subject_configs
          THEN /\ \E c2 \in StaticFinish([base EXCEPT !.unconfigured = TRUE],
                                         fallback_responses, now) :
                     call' = [call EXCEPT ![p] = c2]
               /\ UNCHANGED <<response_cache, connectivity_status, last_sync_attempt,
                              connRet>>
          ELSE
            LET cfgv == subject_configs[s]
                doRead == ReadsCache(force_ai, cfgv)
                rd == GetCachedResponse(response_cache, key, now)
            IN IF doRead /\ rd.ret # << >>
                 THEN (* cached_response['source'] = 'cache' writes into the stored dict *)
                      LET cached == [rd.ret[1] EXCEPT !.source = "cache"]
                          built == AIResponseFromKwargs(cached, now)
                          c1 == Log(base, "cache:hit")
                      IN /\ response_cache' = [rd.cache EXCEPT ![key].response = cached]
                         /\ call' = [call EXCEPT ![p] =
                                       IF built.raised THEN Raised(c1, built.exc)
                                                       ELSE Returned(c1, built.value[1])]
                         /\ UNCHANGED <<connectivity_status, last_sync_attempt, connRet>>
                 ELSE
                   LET c1 == IF ~doRead THEN base
                             ELSE IF key \in DOMAIN response_cache
                               THEN Log(base, "cache:expired")
                               ELSE Log(base, "cache:miss")
                   IN AfterCacheRead(p, c1, cfgv,
                                     IF doRead THEN rd.cache ELSE response_cache,
                                     force_ai, env)
  /\ UNCHANGED <<now, subject_configs, fallback_responses, providers, config_file,
                 lastLive>>

(* get_cached_response found an entry past its expiry *)
FindsExpired(cache, key, t) ==
  key \in DOMAIN cache /\ GetCachedResponse(cache, key, t).ret = << >>

(* A request thread calls generate_response without force_ai.  Threads are *)
(* switched between any two operations on the shared dicts; the only place *)
(* in the code before the first await where a switch shows is inside       *)
(* get_cached_response, between the test of the expiry at line 448 and the *)
(* del at line 453: a call that finds an expired entry stops there.        *)
ThreadGenerate(p, s, ctx, env) ==
  /\ ops < MaxRaceOps
  /\ ops' = ops + 1
  /\ IF /\ s \in DOMAIN subject_configs
        /\ ReadsCache(FALSE, subject_configs[s])
        /\ FindsExpired(response_cache, GenerateCacheKey(s, ctx), now)
       THEN /\ call[p].pc \in {"idle", "done"}
            /\ call' = [call EXCEPT ![p] =
                          [Log(BaseCall(p, ops + 1, s, ctx, FALSE), "cache:expired")
                             EXCEPT !.pc = "purge"]]
            /\ UNCHANGED <<now, subject_configs, fallback_responses, connectivity_status,
                           last_sync_attempt, response_cache, providers, config_file,
                           connRet, lastLive>>
       ELSE GenerateResponseBody(p, ops + 1, s, ctx, FALSE, env)
  /\ UNCHANGED sync

(* del self.response_cache[cache_key] of a call that found an expired      *)
(* entry: it removes whatever the key holds by now, and raises KeyError if *)
(* the key holds nothing; the exception leaves generate_response, whose    *)
(* try starts after the cache read.                                        *)
ThreadPurge(p, env) ==
  /\ call[p].pc = "purge"
  /\ LET c == call[p]
         key == GenerateCacheKey(c.subject, c.context)
     IN IF key \notin DOMAIN response_cache
          THEN /\ call' = [call EXCEPT ![p] = Raised(Log(c, "purge:absent"), "KeyError")]
               /\ UNCHANGED <<response_cache, connectivity_status, last_sync_attempt,
                              connRet>>
          ELSE AfterCacheRead(p, Log(c, "purge"), subject_configs[c.subject],
                              [k \in (DOMAIN response_cache) \ {key} |-> response_cache[k]],
                              FALSE, env)
  /\ UNCHANGED <<now, ops, subject_configs, fallback_responses, providers, config_file,
                 lastLive, sync>>

(* A caller calls generate_response *)
GenerateResponse(p, s, ctx, force_ai, env) ==
  /\ ops < MaxOps
  /\ ops' = ops + 1
  /\ GenerateResponseBody(p, ops + 1, s, ctx, force_ai, env)
  /\ UNCHANGED sync

(* The awaited primary call returns a completion: lines 233-245 *)
PrimarySucceeds(p, text) ==
  /\ call[p].pc = "primary"
  /\ LET c == call[p]
         cfgv == ConfigOf(c, subject_configs)
         key == GenerateCacheKey(c.subject, c.context)
         ai_response == ProviderResponse(text, now)
     IN IF cfgv.cache_responses /\ CacheWriteRaises(cfgv.cache_duration_hours)
          THEN (* line 238 raises inside the try: the handler of line 250 *)
               /\ \E c2 \in StaticFinish(Log(Log(c, "primary:ok"), "unexpected"),
                                          fallback_responses, now) :
                     call' = [call EXCEPT ![p] =
                                [c2 EXCEPT !.malformed = @ \/ MalformedText(text)]]
               /\ UNCHANGED <<response_cache, lastLive>>
          ELSE
            /\ call' = [call EXCEPT ![p] =
                           [Returned(Log(c, "primary:ok"), ai_response)
                              EXCEPT !.malformed = @ \/ MalformedText(text)]]
            /\ IF cfgv.cache_responses
                 THEN /\ response_cache' = CacheResponse(response_cache, key,
                                                         ToDict(ai_response),
                                                         cfgv.cache_duration_hours, now)
                      /\ lastLive' = <<[key |-> key, text |-> text, at |-> now,
                                        hours |-> cfgv.cache_duration_hours]>>
                 ELSE UNCHANGED <<response_cache, lastLive>>
  /\ UNCHANGED <<now, ops, subject_configs, fallback_responses, connectivity_status,
                 last_sync_attempt, providers, config_file, connRet>>
  /\ UNCHANGED sync

(* The sleep of the retry loop after failed attempt number attempt (from 0) *)
RetrySleeps(c, cfgv) ==
  IF c.attempt < cfgv.primary_model.retry_attempts - 1
    THEN Append(c.sleeps, cfgv.primary_model.retry_delay * (c.attempt + 1))
    ELSE c.sleeps

(* A retry loop that makes one attempt more than it was given *)
MoreAttempts_OneMore(c) == c.attempt < c.n

(* A retry loop that stops one attempt early *)
MoreAttempts_OffByOne(c) == c.attempt + 2 < c.n

(* for attempt in range(retry_attempts): another attempt follows *)
MoreAttempts(c) == c.attempt + 1 < c.n

(* A failed primary call that marks the provider unreachable *)
PrimaryFails_MarksUnreachable(p, kind) ==
  /\ call[p].pc = "primary"
  /\ ProviderRaises(kind) = "AIServiceError"
  /\ LET c == call[p]
         cfgv == ConfigOf(c, subject_configs)
         c1 == [Log(c, "primary:fail") EXCEPT !.sleeps = RetrySleeps(c, cfgv),
                                              !.malformed = @ \/ MalformedFailure(kind)]
     IN /\ IF MoreAttempts(c)
             THEN call' = [call EXCEPT ![p] = [c1 EXCEPT !.attempt = c.attempt + 1]]
             ELSE \E c2 \in TryFallbackModel(c1, cfgv, subject_configs, providers,
                                             fallback_responses, now) :
                     call' = [call EXCEPT ![p] = c2]
        /\ connectivity_status' =
              [pr \in DOMAIN connectivity_status |->
                 IF pr = cfgv.primary_model.provider THEN FALSE ELSE connectivity_status[pr]]
  /\ UNCHANGED <<now, ops, subject_configs, fallback_responses,
                 last_sync_attempt, response_cache, providers, config_file, connRet,
                 lastLive>>
  /\ UNCHANGED sync

(* The awaited primary call raises AIServiceError: lines 273-279, 247-249 *)
PrimaryFails(p, kind) ==
  /\ call[p].pc = "primary"
  /\ ProviderRaises(kind) = "AIServiceError"
  /\ LET c == call[p]
         cfgv == ConfigOf(c, subject_configs)
         c1 == [Log(c, "primary:fail") EXCEPT !.sleeps = RetrySleeps(c, cfgv),
                                              !.malformed = @ \/ MalformedFailure(kind)]
     IN IF MoreAttempts(c)
          THEN call' = [call EXCEPT ![p] = [c1 EXCEPT !.attempt = c.attempt + 1]]
          ELSE \E c2 \in TryFallbackModel(c1, cfgv, subject_configs, providers,
                                          fallback_responses, now) :
                  call' = [call EXCEPT ![p] = c2]
  /\ UNCHANGED <<now, ops, subject_configs, fallback_responses, connectivity_status,
                 last_sync_attempt, response_cache, providers, config_file, connRet,
                 lastLive>>
  /\ UNCHANGED sync

(* A secondary response that keeps no provenance tag *)
AsFallbackAI_Untagged(r) == [r EXCEPT !.source = ""]

(* response.source = "fallback_ai" *)
AsFallbackAI(r) == [r EXCEPT !.source = "fallback_ai"]

(* A secondary completion that is written to the cache *)
SecondarySucceeds_Caches(p, text) ==
  /\ call[p].pc = "secondary"
  /\ LET c == call[p]
         cfgv == ConfigOf(c, subject_configs)
         r == AsFallbackAI(ProviderResponse(text, now))
     IN /\ call' = [call EXCEPT ![p] = Returned(Log(c, "secondary:ok"), r)]
        /\ response_cache' = CacheResponse(response_cache,
                                           GenerateCacheKey(c.subject, c.context),
                                           ToDict(r), cfgv.cache_duration_hours, now)
  /\ UNCHANGED <<now, ops, subject_configs, fallback_responses, connectivity_status,
                 last_sync_attempt, providers, config_file, connRet, lastLive>>
  /\ UNCHANGED sync

(* The awaited secondary call returns a completion: lines 289-296 *)
SecondarySucceeds(p, text) ==
  /\ call[p].pc = "secondary"
  /\ call' = [call EXCEPT ![p] =
                Returned(Log(call[p], "secondary:ok"), AsFallbackAI(ProviderResponse(text, now)))]
  /\ UNCHANGED <<now, ops, subject_configs, fallback_responses, connectivity_status,
                 last_sync_attempt, response_cache, providers, config_file, connRet,
                 lastLive>>
  /\ UNCHANGED sync

(* The awaited secondary call raises: lines 297-301 *)
SecondaryFails(p) ==
  /\ call[p].pc = "secondary"
  /\ \E c2 \in StaticFinish(Log(call[p], "secondary:fail"), fallback_responses, now) :
        call' = [call EXCEPT ![p] = c2]
  /\ UNCHANGED <<now, ops, subject_configs, fallback_responses, connectivity_status,
                 last_sync_attempt, response_cache, providers, config_file, connRet,
                 lastLive>>
  /\ UNCHANGED sync

----------------------------------------------------------------------------
(* sync_with_ai: its steps *)

(* The sweep is called *)
SyncStart ==
  /\ sync.pc \in {"idle", "done"}
  /\ sync.runs < MaxSyncs
  /\ sync' = [IdleSync EXCEPT !.pc = "run", !.runs = sync.runs + 1]
  /\ UNCHANGED <<now, ops, subject_configs, fallback_responses, connectivity_status,
                 last_sync_attempt, response_cache, providers, config_file, call,
                 connRet, lastLive>>

(* response = await self.generate_response(subject, scenario, force_ai=True) *)
SyncGenerate ==
  /\ sync.pc = "run"
  /\ GenerateResponseBody(SyncCaller, 0, SubjectOrder[sync.si], Scenarios[sync.ki],
                          TRUE, TRUE)
  /\ sync' = [sync EXCEPT !.pc = "wait",
                          !.calls = Append(@, <<SubjectOrder[sync.si], sync.ki>>)]
  /\ UNCHANGED ops

(* The sweep after subject si: the next subject, or the return *)
NextSubject(y) ==
  IF y.si < Len(SubjectOrder)
    THEN [y EXCEPT !.pc = "run", !.si = y.si + 1, !.ki = 1]
    ELSE [y EXCEPT !.pc = "done"]

(* The awaited generate_response is over: lines 373-389 *)
SyncCollect ==
  /\ sync.pc = "wait"
  /\ call[SyncCaller].pc = "done"
  /\ LET c == call[SyncCaller]
         subject == SubjectOrder[sync.si]
         scenario == Scenarios[sync.ki]
     IN IF c.outcome = "raised"
          THEN /\ sync' = NextSubject([sync EXCEPT !.report =
                                                      Reported(@, subject, "error")])
               /\ UNCHANGED fallback_responses
          ELSE /\ fallback_responses' =
                     IF SyncAppends(c.result[1])
                       THEN AddFallbackResponse(fallback_responses,
                                                SyncFallback(subject, scenario, c.result[1]))
                       ELSE fallback_responses
               /\ sync' = IF sync.ki < Len(Scenarios)
                            THEN [sync EXCEPT !.pc = "run", !.ki = sync.ki + 1]
                            ELSE NextSubject([sync EXCEPT !.report =
                                                            Reported(@, subject, "synced")])
  /\ UNCHANGED <<now, ops, subject_configs, connectivity_status, last_sync_attempt,
                 response_cache, providers, config_file, call, connRet, lastLive>>

----------------------------------------------------------------------------
(* The clock *)

Tick(d) ==
  /\ ops < MaxOps
  /\ ops' = ops + 1
  /\ now' = now + d
  /\ UNCHANGED <<subject_configs, fallback_responses, connectivity_status,
                 last_sync_attempt, response_cache, providers, config_file, call,
                 connRet, lastLive>>
  /\ UNCHANGED sync

----------------------------------------------------------------------------
(* AIService.test_connectivity: check_connectivity for every provider      *)
(* but FALLBACK.                                                           *)

TestConnectivity(env) ==
  LET res(pr) == CheckConnectivity(pr, connectivity_status, last_sync_attempt, now, env)
  IN /\ connectivity_status' = [pr \in DOMAIN connectivity_status |-> res(pr).status[pr]]
     /\ last_sync_attempt' = [pr \in DOMAIN last_sync_attempt |-> res(pr).last[pr]]
     /\ connRet' = [pr \in DOMAIN connRet |-> Tag(res(pr).ret)]
     /\ UNCHANGED <<now, ops, subject_configs, fallback_responses, response_cache,
                    providers, config_file, call, lastLive>>
     /\ UNCHANGED sync

----------------------------------------------------------------------------
(* Configuration updates *)

Get(d, k, default) == IF k \in DOMAIN d THEN d[k] ELSE default

(* Requests PUT /admin/ai/config/<subject> with their JSON bodies;         *)
(* temperatures in tenths.                                                 *)
AdminRequests ==
  { <<"task_completion", [primary_model |-> [temperature |-> 50]]>>,
    <<"task_completion", [primary_model |-> [max_tokens |-> 0 - 100]]>>,
    <<"task_completion", [primary_model |-> [provider |-> "no_such_provider"],
                          cache_responses |-> FALSE]>>,
    <<"task_completion", [primary_model |-> [provider |-> "anthropic"],
                          cache_duration_hours |-> 1]>>,
    <<"task_completion", [cache_responses |-> FALSE, context_template |-> TplPositional]>>,
    <<"task_completion", [cache_duration_hours |-> DatetimeSpanHours + 1]>>,
    <<"goal_setting", [cache_responses |-> FALSE]>>,
    <<"no_such_subject", [cache_responses |-> FALSE]>> }

(* update_subject_configuration, lines 100-130: the status it answers and  *)
(* the fields of the subject's config object after it.                     *)
AdminApply(current, data) ==
  LET md == Get(data, "primary_model", [x \in {} |-> 0])
      provider == Get(md, "provider", current.primary_model.provider)
      badProvider == "primary_model" \in DOMAIN data /\ provider \notin AIProvider
      primary ==
        IF "primary_model" \in DOMAIN data
          THEN [provider |-> provider,
                max_tokens |-> Get(md, "max_tokens", current.primary_model.max_tokens),
                temperature |-> Get(md, "temperature", current.primary_model.temperature),
                retry_attempts |-> DefaultRetryAttempts,
                retry_delay |-> DefaultRetryDelay]
          ELSE current.primary_model
  IN IF badProvider
       THEN [status |-> 422, config |-> current]
       ELSE [status |-> 200,
             config |->
               [current EXCEPT
                  !.primary_model = primary,
                  !.context_template = Get(data, "context_template", @),
                  !.cache_responses = Get(data, "cache_responses", @),
                  !.cache_duration_hours = Get(data, "cache_duration_hours", @)]]

(* update_subject_configuration(subject): the whole request.  The config   *)
(* object is changed in place, so calls that hold it see the change.       *)
AdminUpdate(subject, data) ==
  /\ ops < MaxOps
  /\ ops' = ops + 1
  /\ IF subject \notin SubjectMatter \/ subject \notin DOMAIN subject_configs
       THEN UNCHANGED <<subject_configs, config_file, lastLive>>
       ELSE LET r == AdminApply(subject_configs[subject], data)
            IN /\ subject_configs' = [subject_configs EXCEPT ![subject] = r.config]
               /\ IF r.status = 200
                    THEN /\ config_file' = SaveConfiguration(subject_configs')
                         /\ lastLive' = << >>
                    ELSE UNCHANGED <<config_file, lastLive>>
  /\ UNCHANGED <<now, fallback_responses, connectivity_status, last_sync_attempt,
                 response_cache, providers, call, connRet>>
  /\ UNCHANGED sync

(* The status update_subject_configuration answers *)
AdminStatus(subject, data) ==
  IF subject \notin SubjectMatter THEN 422
  ELSE IF subject \notin DOMAIN subject_configs THEN 404
  ELSE AdminApply(subject_configs[subject], data).status

(* The fields update_subject_configuration assigns, in the order of its    *)
(* statements; system_prompt, which no call outcome depends on, is left    *)
(* out of the config records.                                              *)
AdminFields ==
  <<"primary_model", "context_template", "cache_responses", "cache_duration_hours">>

(* The body of a request cut down to one field *)
OnlyField(data, f) == [x \in {f} \cap DOMAIN data |-> data[x]]

(* A request thread takes up PUT /admin/ai/config/<subject>: lines 74-98.  *)
(* current_config is the object in the store.                              *)
ThreadAdminBegin(p, subject, data) ==
  /\ call[p].pc \in {"idle", "done"}
  /\ ops < MaxRaceOps
  /\ ops' = ops + 1
  /\ LET c == [IdleCall EXCEPT !.id = ops + 1, !.at = now, !.req = <<data>>]
     IN IF subject \notin SubjectMatter
          THEN call' = [call EXCEPT ![p] = Returned(Log(c, "admin:422"), [status |-> 422])]
          ELSE IF subject \notin DOMAIN subject_configs
            THEN call' = [call EXCEPT ![p] =
                            Returned(Log([c EXCEPT !.subject = subject], "admin:404"),
                                     [status |-> 404])]
            ELSE call' = [call EXCEPT ![p] =
                            [c EXCEPT !.pc = "admin", !.subject = subject, !.attempt = 1,
                                      !.cfgStart = <<subject_configs[subject]>>]]
  /\ UNCHANGED <<now, subject_configs, fallback_responses, connectivity_status,
                 last_sync_attempt, response_cache, providers, config_file, connRet,
                 lastLive, sync>>

(* The next statement of the request: one of the assignments to the config *)
(* object of lines 100-129, or, after the last, update_subject_config and  *)
(* the answer.  The object is the one in the store, so each assignment     *)
(* shows there at once.                                                    *)
ThreadAdminStep(p) ==
  /\ call[p].pc = "admin"
  /\ LET c == call[p]
         k == c.attempt
     IN IF k <= Len(AdminFields)
          THEN LET r == AdminApply(subject_configs[c.subject],
                                   OnlyField(c.req[1], AdminFields[k]))
               IN /\ subject_configs' = [subject_configs EXCEPT ![c.subject] = r.config]
                  /\ call' = [call EXCEPT ![p] =
                                IF r.status = 200
                                  THEN [c EXCEPT !.attempt = k + 1]
                                  ELSE Returned(Log(c, "admin:422"), [status |-> 422])]
                  /\ UNCHANGED config_file
          ELSE /\ config_file' = SaveConfiguration(subject_configs)
               /\ call' = [call EXCEPT ![p] = Returned(Log(c, "admin:200"), [status |-> 200])]
               /\ UNCHANGED subject_configs
  /\ UNCHANGED <<now, ops, fallback_responses, connectivity_status, last_sync_attempt,
                 response_cache, providers, connRet, lastLive, sync>>

(* Configs handed to update_subject_config directly *)
ConfigChoices(s) ==
  { [subject |-> s,
     primary_model |-> [DefaultOpenAI EXCEPT !.retry_attempts = 2],
     fallback_model |-> <<[FallbackConfig EXCEPT !.provider = "openai"]>>,
     context_template |-> TplNone, cache_responses |-> TRUE, cache_duration_hours |-> 1] }

(* A call suspended on subject s keeps the object it read *)
Detach(c, s, cfgs) ==
  IF c.pc \in {"primary", "secondary"} /\ c.subject = s /\ c.cfgRef = "store"
    THEN [c EXCEPT !.cfgRef = "detached", !.cfgOld = <<cfgs[s]>>]
    ELSE c

(* update_subject_config(subject, config) with a new config object *)
UpdateSubjectConfig(s, config) ==
  /\ ops < MaxOps
  /\ ops' = ops + 1
  /\ subject_configs' = [x \in (DOMAIN subject_configs) \cup {s} |->
                           IF x = s THEN config ELSE subject_configs[x]]
  /\ config_file' = SaveConfiguration(subject_configs')
  /\ call' = [p \in Threads |-> Detach(call[p], s, subject_configs)]
  /\ lastLive' = << >>
  /\ UNCHANGED <<now, fallback_responses, connectivity_status, last_sync_attempt,
                 response_cache, providers, connRet>>
  /\ UNCHANGED sync

(* DELETE /admin/ai/cache *)
ClearCache ==
  /\ response_cache # ClearedCache
  /\ response_cache' = ClearedCache
  /\ lastLive' = << >>
  /\ UNCHANGED <<now, ops, subject_configs, fallback_responses, connectivity_status,
                 last_sync_attempt, providers, config_file, call, connRet>>
  /\ UNCHANGED sync

----------------------------------------------------------------------------
(* The process is restarted: the module-level managers are constructed     *)
(* anew, over the configuration file the last run left.                    *)
Restart ==
  /\ ops < MaxOps
  /\ ops' = ops + 1
  /\ subject_configs' = LoadConfiguration(config_file)
  /\ config_file' = IF config_file \in {"absent", "truncated"}
                       THEN SaveConfiguration(subject_configs')
                       ELSE config_file
  /\ fallback_responses' = LoadFallbackResponses
  /\ connectivity_status' = InitializeConnectivityStatus(now).status
  /\ last_sync_attempt' = InitializeConnectivityStatus(now).last
  /\ response_cache' = ClearedCache
  /\ providers' = InitializeProviders(subject_configs')
  /\ call' = [p \in Threads |-> IdleCall]
  /\ connRet' = [pr \in AIProvider \ {"fallback"} |-> "none"]
  /\ lastLive' = << >>
  /\ UNCHANGED now
  /\ sync' = IdleSync

----------------------------------------------------------------------------
(* The system after the module-level managers are constructed *)

Init ==
  /\ now = 0
  /\ ops = 0
  /\ subject_configs = CreateDefaultConfiguration
  /\ config_file = SaveConfiguration(CreateDefaultConfiguration)
  /\ fallback_responses = LoadFallbackResponses
  /\ connectivity_status = InitializeConnectivityStatus(0).status
  /\ last_sync_attempt = InitializeConnectivityStatus(0).last
  /\ response_cache = ClearedCache
  /\ providers = InitializeProviders(CreateDefaultConfiguration)
  /\ call = [p \in Threads |-> IdleCall]
  /\ connRet = [pr \in AIProvider \ {"fallback"} |-> "none"]
  /\ lastLive = << >>
  /\ sync = IdleSync

Next ==
  \/ \E p \in Callers, s \in SubjectMatter, ctx \in Contexts, f \in BOOLEAN, env \in BOOLEAN :
        GenerateResponse(p, s, ctx, f, env)
  \/ \E p \in Callers, text \in Texts : PrimarySucceeds(p, text)
  \/ \E p \in Callers, kind \in FailureKinds : PrimaryFails(p, kind)
  \/ \E p \in Callers, text \in Texts : SecondarySucceeds(p, text)
  \/ \E p \in Callers : SecondaryFails(p)
  \/ \E d \in Deltas : Tick(d)
  \/ \E env \in BOOLEAN : TestConnectivity(env)
  \/ \E r \in AdminRequests : AdminUpdate(r[1], r[2])
  \/ \E s \in SubjectMatter : \E c \in ConfigChoices(s) : UpdateSubjectConfig(s, c)
  \/ ClearCache
  \/ Restart

Spec == Init /\ [][Next]_vars

(* The completion the provider sends back during a sweep *)
SyncTexts == {"Amazing job, keep the streak!"}

(* The sweep alone with the provider, while configurations are replaced *)
SyncNext ==
  \/ SyncStart
  \/ SyncGenerate
  \/ \E p \in Callers, text \in SyncTexts : PrimarySucceeds(p, text)
  \/ \E p \in Callers, kind \in FailureKinds : PrimaryFails(p, kind)
  \/ \E p \in Callers, text \in SyncTexts : SecondarySucceeds(p, text)
  \/ \E p \in Callers : SecondaryFails(p)
  \/ SyncCollect
  \/ \E s \in SubjectMatter : \E c \in ConfigChoices(s) : UpdateSubjectConfig(s, c)

SyncSpec == Init /\ [][SyncNext]_vars

(* The completions the provider sends back to racing calls: two, so that   *)
(* the response of one call is told from that of the other.                *)
RaceTexts == {"Amazing job, keep the streak!", "Well done"}

(* Two request threads calling generate_response for one subject and one   *)
(* context, hence one cache key, while the clock passes the cache duration *)
RaceNext ==
  \/ \E p \in Threads, env \in BOOLEAN : ThreadGenerate(p, "task_completion", CtxEmpty, env)
  \/ \E p \in Threads, env \in BOOLEAN : ThreadPurge(p, env)
  \/ \E p \in Threads, text \in RaceTexts : PrimarySucceeds(p, text)
  \/ \E p \in Threads, kind \in FailureKinds : PrimaryFails(p, kind)
  \/ \E d \in Deltas : Tick(d)

RaceSpec == Init /\ [][RaceNext]_vars

(* Configs handed to update_subject_config with few retry attempts or     *)
(* none, with and without a secondary model that has a client.             *)
RetryChoices(s) ==
  { [subject |-> s,
     primary_model |-> [DefaultOpenAI EXCEPT !.retry_attempts = n],
     fallback_model |-> <<[FallbackConfig EXCEPT !.provider = pr]>>,
     context_template |-> TplNone, cache_responses |-> TRUE,
     cache_duration_hours |-> DefaultCacheDurationHours] :
       n \in 0..1, pr \in {"openai", "fallback"} }

(* A model call of p's call comes back, with a completion or an error *)
ModelCallEnds(p) ==
  \/ \E text \in Texts : PrimarySucceeds(p, text)
  \/ \E kind \in FailureKinds : PrimaryFails(p, kind)
  \/ \E text \in Texts : SecondarySucceeds(p, text)
  \/ SecondaryFails(p)

(* Calls under configurations of few retry attempts *)
RetryNext ==
  \/ \E p \in Callers, s \in SubjectMatter, ctx \in Contexts, f \in BOOLEAN, env \in BOOLEAN :
        GenerateResponse(p, s, ctx, f, env)
  \/ \E p \in Callers, text \in Texts : PrimarySucceeds(p, text)
  \/ \E p \in Callers, kind \in FailureKinds : PrimaryFails(p, kind)
  \/ \E p \in Callers, text \in Texts : SecondarySucceeds(p, text)
  \/ \E p \in Callers : SecondaryFails(p)
  \/ \E s \in SubjectMatter : \E c \in RetryChoices(s) : UpdateSubjectConfig(s, c)

(* Every model call comes back: wait_for ends it at the timeout of the     *)
(* model config at the latest.                                             *)
RetrySpec ==
  Init /\ [][RetryNext]_vars /\ \A p \in Callers : WF_vars(ModelCallEnds(p))

(* Configs with a secondary model of a provider that is initialised: one   *)
(* that formats and caches without error, one whose template takes a       *)
(* positional argument, one whose cache duration leaves the datetime range *)
UnexpectedChoices(s) ==
  { [subject |-> s,
     primary_model |-> [DefaultOpenAI EXCEPT !.retry_attempts = 1],
     fallback_model |-> <<[FallbackConfig EXCEPT !.provider = "openai"]>>,
     context_template |-> tpl, cache_responses |-> TRUE, cache_duration_hours |-> h] :
       tpl \in {TplNone, TplPositional},
       h \in {DefaultCacheDurationHours, DatetimeSpanHours + 1} }

(* Bodies of PUT /admin/ai/config/<subject> that set the two fields *)
UnexpectedRequests ==
  { <<"task_completion", [cache_duration_hours |-> DatetimeSpanHours + 1]>>,
    <<"task_completion", [context_template |-> TplPositional]>> }

(* Calls under configs that make the formatting or the cache write raise *)
UnexpectedNext ==
  \/ \E p \in Callers, ctx \in Contexts, f \in BOOLEAN, env \in BOOLEAN :
        GenerateResponse(p, "task_completion", ctx, f, env)
  \/ \E p \in Callers, text \in SyncTexts : PrimarySucceeds(p, text)
  \/ \E p \in Callers, kind \in FailureKinds : PrimaryFails(p, kind)
  \/ \E p \in Callers, text \in SyncTexts : SecondarySucceeds(p, text)
  \/ \E p \in Callers : SecondaryFails(p)
  \/ \E c \in UnexpectedChoices("task_completion") :
        UpdateSubjectConfig("task_completion", c)
  \/ \E r \in UnexpectedRequests : AdminUpdate(r[1], r[2])
  \/ \E d \in Deltas : Tick(d)

UnexpectedSpec == Init /\ [][UnexpectedNext]_vars

(* Minutes the clock advances by in the time after a start: steps that    *)
(* stay inside the cool-down window and leave it.                          *)
StartupDeltas == {2, 3}

(* Requests, connectivity reports and restarts in the minutes after the    *)
(* managers were constructed.                                              *)
StartupNext ==
  \/ \E p \in Callers, env \in BOOLEAN :
        GenerateResponse(p, "task_completion", CtxEmpty, FALSE, env)
  \/ \E p \in Callers, text \in SyncTexts : PrimarySucceeds(p, text)
  \/ \E p \in Callers, kind \in FailureKinds : PrimaryFails(p, kind)
  \/ \E env \in BOOLEAN : TestConnectivity(env)
  \/ \E d \in StartupDeltas : Tick(d)
  \/ Restart

StartupSpec == Init /\ [][StartupNext]_vars

(* Contexts of the requests that meet in the cache: two dicts with the     *)
(* same pairs inserted in opposite orders, one that differs from them in a *)
(* value, one in its keys, and the empty dict.                             *)
KeyContexts ==
  { CtxEmpty,
    CtxCelebratoryGeneral,
    << <<"context_type", "general">>, <<"mood", "celebratory">> >>,
    << <<"context_type", "general">>, <<"mood", "cheerful">> >>,
    << <<"mood", "celebratory">> >> }

(* Each request thread serves one request *)
KeyGenerate(p, s, ctx, force_ai, env) ==
  /\ call[p].pc = "idle"
  /\ GenerateResponse(p, s, ctx, force_ai, env)

(* Requests for both subjects over these contexts, the second subject      *)
(* being configured on the way.                                            *)
KeyNext ==
  \/ \E p \in Threads, s \in SubjectMatter, ctx \in KeyContexts,
         f \in BOOLEAN, env \in BOOLEAN : KeyGenerate(p, s, ctx, f, env)
  \/ \E p \in Threads, text \in RaceTexts : PrimarySucceeds(p, text)
  \/ \E s \in SubjectMatter : \E c \in ConfigChoices(s) : UpdateSubjectConfig(s, c)

KeySpec == Init /\ [][KeyNext]_vars

(* FallbackResponse objects handed to add_fallback_response: one with the  *)
(* default weight of the dataclass for a subject that has a list, one with *)
(* a weight of its own for a subject that has none.                        *)
LibraryInputs ==
  { [subject |-> "task_completion", context_type |-> "general", mood |-> "cheerful",
     response_text |-> "Well done", animation_type |-> "bounce", weight |-> SyncWeight],
    [subject |-> "goal_setting", context_type |-> "general", mood |-> "proud",
     response_text |-> "Well done", animation_type |-> "bounce", weight |-> 2] }

(* add_fallback_response(response), called on the manager *)
AddFallback(fb) ==
  /\ ops < MaxOps
  /\ ops' = ops + 1
  /\ fallback_responses' = AddFallbackResponse(fallback_responses, fb)
  /\ UNCHANGED <<now, subject_configs, connectivity_status, last_sync_attempt,
                 response_cache, providers, config_file, call, connRet, lastLive, sync>>

(* The thread that serves the generate requests while a sweep runs *)
UserThread == "c2"

(* All that touches or reads the static responses: the sweep, calls of     *)
(* generate_response beside it, and add_fallback_response.                 *)
LibraryNext ==
  \/ SyncStart
  \/ SyncGenerate
  \/ SyncCollect
  \/ \E f \in BOOLEAN, env \in BOOLEAN :
        GenerateResponse(UserThread, "task_completion", CtxCelebratoryGeneral, f, env)
  \/ \E p \in Threads, text \in SyncTexts : PrimarySucceeds(p, text)
  \/ \E p \in Threads : PrimaryFails(p, "timeout")
  \/ \E fb \in LibraryInputs : AddFallback(fb)

LibrarySpec == Init /\ [][LibraryNext]_vars

(* Requests two administrators send for one subject at the same time, each *)
(* naming a provider and a cache duration, and one for another subject.    *)
RaceRequests ==
  { <<"task_completion", [primary_model |-> [provider |-> "anthropic"],
                          cache_duration_hours |-> 1]>>,
    <<"task_completion", [primary_model |-> [provider |-> "local"],
                          cache_duration_hours |-> 2]>>,
    <<"task_completion", [primary_model |-> [provider |-> "no_such_provider"],
                          cache_responses |-> FALSE]>>,
    <<"goal_setting", [cache_responses |-> FALSE]>> }

(* Request threads updating configurations through the admin route, the   *)
(* caller of update_subject_config.                                        *)
AdminRaceNext ==
  \/ \E p \in Threads, r \in RaceRequests : ThreadAdminBegin(p, r[1], r[2])
  \/ \E p \in Threads : ThreadAdminStep(p)

AdminRaceSpec == Init /\ [][AdminRaceNext]_vars

----------------------------------------------------------------------------
(* Properties of generate_response and its collaborators *)

Done(c) == c.pc = "done"

Events(c) == {c.trace[i] : i \in DOMAIN c.trace}

CacheEvents == {"cache:hit", "cache:expired", "cache:miss"}

ConnEvents == {"conn:up", "conn:down"}

PrimaryCalls(c) == Count(c.trace, "primary:ok") + Count(c.trace, "primary:fail")

SecondaryCalls(c) == Count(c.trace, "secondary:ok") + Count(c.trace, "secondary:fail")

(* The call of p is the one this step starts *)
Starts(p) == call'[p].id = ops + 1

(* C1: generate_response never raises to its caller: whatever the subject, *)
(* the context, force_ai and the outcomes of the cache lookup, the         *)
(* connectivity check and the model calls, a finished call has returned an *)
(* AIResponse.                                                             *)
C1_AlwaysReturns ==
  \A p \in Callers :
    Done(call[p]) => call[p].outcome = "returned" /\ call[p].result # << >>

(* C2: a non-forced call that repeats the subject and context of an        *)
(* earlier call whose primary model succeeded, for a cache-eligible        *)
(* subject and before the cache duration has elapsed, returns source       *)
(* "cache" with the text of the earlier call and calls no primary model.   *)
C2_SecondCallFromCache ==
  \A p \in Callers :
    LET c == call[p]
    IN (Done(c) /\ ~c.force_ai /\ c.prior # << >>) =>
         /\ c.outcome = "returned"
         /\ c.result # << >>
         /\ c.result[1].source = "cache"
         /\ c.result[1].text = c.prior[1]
         /\ PrimaryCalls(c) = 0

(* C3: get_cached_response never returns an entry whose expiry has passed  *)
(* and removes it from the cache; a call that finds its entry expired goes *)
(* on as a cold lookup: it checks connectivity and, when the provider is   *)
(* up and has a client, awaits the primary model.                          *)
C3_ExpiredEntryStep(p) ==
  LET c == call'[p]
      key == GenerateCacheKey(c.subject, c.context)
      lookedUp == /\ Starts(p)
                  /\ ~c.force_ai
                  /\ c.subject \in DOMAIN subject_configs
                  /\ subject_configs[c.subject].cache_responses
      stale == key \in DOMAIN response_cache /\ now >= response_cache[key].expiry
  IN lookedUp =>
       /\ "cache:hit" \in Events(c) =>
             key \in DOMAIN response_cache /\ now < response_cache[key].expiry
       /\ stale =>
            /\ key \notin DOMAIN response_cache'
            /\ Len(c.trace) >= 2
            /\ c.trace[1] = "cache:expired"
            /\ c.trace[2] \in ConnEvents
            /\ c.outcome = "returned" => c.result[1].source # "cache"
            /\ ( /\ c.trace[2] = "conn:up"
                 /\ subject_configs[c.subject].primary_model.provider \in providers
                 /\ subject_configs[c.subject].primary_model.retry_attempts > 0
                 /\ FormatUserPrompt(subject_configs, c.subject, c.context) = "ok" )
               => c.pc = "primary"

C3_CacheExpiry ==
  [][ /\ \A key \in DOMAIN response_cache :
            now >= response_cache[key].expiry =>
               LET rd == GetCachedResponse(response_cache, key, now)
               IN rd.ret = << >> /\ key \notin DOMAIN rd.cache
      /\ \A p \in Callers : C3_ExpiredEntryStep(p) ]_vars

(* A call found its entry expired, purged it and awaits the primary model *)
C3_Witness ==
  \E p \in Callers :
    /\ call[p].pc = "primary"
    /\ Len(call[p].trace) = 2
    /\ call[p].trace[1] = "cache:expired"
    /\ GenerateCacheKey(call[p].subject, call[p].context) \notin DOMAIN response_cache

(* C4: a call with force_ai set never looks the cache up and never returns *)
(* source "cache", whatever the cache holds, a fresh entry for its own     *)
(* subject and context included.                                           *)
C4_ForceBypassesCache ==
  \A p \in Callers :
    LET c == call[p]
    IN c.force_ai =>
         /\ Events(c) \cap CacheEvents = {}
         /\ c.outcome = "returned" => c.result[1].source # "cache"

(* A forced call returned a live response while the cache held an          *)
(* unexpired entry for its key.                                            *)
C4_Witness ==
  \E p \in Callers :
    /\ Done(call[p])
    /\ call[p].force_ai
    /\ call[p].validAtStart
    /\ call[p].outcome = "returned"
    /\ call[p].result[1].source = "ai"

(* C5: when every attempt of the primary model fails and the subject has a *)
(* secondary model that is not the static one, has a client and answers,   *)
(* the call returns source "fallback_ai"; the primary model was called as  *)
(* many times as retry_attempts said when the loop began, all of them      *)
(* before the one call of the secondary model.                             *)
C5_RetryThenFallback ==
  \A p \in Callers :
    LET c == call[p]
    IN ( /\ Done(c)
         /\ PrimaryCalls(c) >= 1
         /\ Count(c.trace, "primary:ok") = 0
         /\ Events(c) \cap {"secondary:none", "secondary:fail", "unexpected"} = {} ) =>
         /\ c.outcome = "returned"
         /\ c.result[1].source = "fallback_ai"
         /\ Count(c.trace, "primary:fail") = c.n
         /\ SecondaryCalls(c) = 1
         /\ c.trace[Len(c.trace)] = "secondary:ok"
         /\ \A i \in 1..(Len(c.trace) - 1) : c.trace[i] # "secondary:ok"

(* A call whose primary model failed on each of its retry_attempts tries   *)
(* was answered by the secondary model.                                    *)
C5_Witness ==
  \E p \in Callers :
    /\ Done(call[p])
    /\ call[p].n >= 2
    /\ Count(call[p].trace, "primary:fail") = call[p].n
    /\ call[p].trace[Len(call[p].trace)] = "secondary:ok"
    /\ call[p].result[1].source = "fallback_ai"

(* C6: a call for a subject without a configuration returns source         *)
(* "fallback" whose metadata names the unconfigured subject as the reason, *)
(* and touches neither the cache nor the connectivity tracker nor a model. *)
C6_UnconfiguredSubject ==
  \A p \in Callers :
    LET c == call[p]
    IN (Done(c) /\ c.unconfigured) =>
         /\ c.outcome = "returned"
         /\ c.result[1].source = "fallback"
         /\ c.trace = <<"static">>
         /\ c.result[1].metadata.fallback_reason = "unconfigured_subject"

(* The four sources and the provenance each stands for *)
Provenance(source) ==
  CASE source = "ai" -> "live-model"
    [] source = "fallback_ai" -> "secondary-model"
    [] source = "cache" -> "cache"
    [] source = "fallback" -> "static-fallback"
    [] OTHER -> "unset"

(* C7: every AIResponse that generate_response returns carries one of the  *)
(* four sources ai, fallback_ai, cache, fallback.                          *)
C7_SourceIsOneOfFour ==
  \A p \in Callers :
    call[p].outcome = "returned" =>
      /\ call[p].result # << >>
      /\ Provenance(call[p].result[1].source) \in
            {"live-model", "secondary-model", "cache", "static-fallback"}

(* The secondary model answered a call *)
C7_Witness ==
  \E p \in Callers :
    /\ call[p].outcome = "returned"
    /\ "secondary:ok" \in Events(call[p])
    /\ Provenance(call[p].result[1].source) = "secondary-model"

ContextTypes == {"general", "streak", "no_such_context"}

Moods == {"", "celebratory", "no_such_mood"}

(* C8: for every subject, context type and mood the static lookup selects  *)
(* a response and does not raise, a generic one when the subject has no    *)
(* authored responses; a call that ends in the static lookup returns a     *)
(* text.                                                                   *)
C8_NonemptyFallback ==
  /\ \A s \in SubjectMatter \cup {"no_such_subject"}, ct \in ContextTypes, m \in Moods :
        LET r == GetFallbackResponse(fallback_responses, s, ct, m)
        IN /\ ~r.raised
           /\ r.choices # {}
           /\ \A fb \in r.choices : fb.response_text # ""
           /\ (s \notin DOMAIN fallback_responses \/ fallback_responses[s] = << >>) =>
                 r.choices = {GenericFallback(s, ct)}
  /\ \A p \in Callers :
        (Done(call[p]) /\ "static" \in Events(call[p])) =>
           /\ call[p].outcome = "returned"
           /\ call[p].result[1].text # ""

(* A call for a subject without authored responses got the generic one *)
C8_Witness ==
  \E p \in Callers :
    /\ Done(call[p])
    /\ call[p].subject \notin DOMAIN fallback_responses
    /\ "static" \in Events(call[p])
    /\ call[p].outcome = "returned"
    /\ call[p].result[1].text = GenericFallback(call[p].subject, "general").response_text

(* This step calls check_connectivity for provider pr: through             *)
(* test_connectivity, or through a call whose subject has pr as primary.   *)
ChecksConnectivity(pr) ==
  \/ \E env \in BOOLEAN : TestConnectivity(env)
  \/ \E p \in Callers :
        /\ Starts(p)
        /\ Events(call'[p]) \cap ConnEvents # {}
        /\ subject_configs[call'[p].subject].primary_model.provider = pr

(* C9: check_connectivity called less than five minutes after the last     *)
(* check of the provider returns the recorded status and leaves the record *)
(* as it is; called once five minutes have passed it probes, records the   *)
(* time and the result, and returns that result.                           *)
C9_CoolDown ==
  [][ \A pr \in AIProvider \ {"fallback"} :
        ChecksConnectivity(pr) =>
          IF now - last_sync_attempt[pr] < CoolDownMinutes
            THEN /\ connRet'[pr] = Tag(connectivity_status[pr])
                 /\ connectivity_status'[pr] = connectivity_status[pr]
                 /\ last_sync_attempt'[pr] = last_sync_attempt[pr]
            ELSE /\ last_sync_attempt'[pr] = now
                 /\ connRet'[pr] = Tag(connectivity_status'[pr])
                 /\ pr # "openai" => connectivity_status'[pr] ]_vars

(* A call at start-up was answered from the record; a check five minutes   *)
(* later probed and recorded the provider as down.                         *)
C9_Witness ==
  /\ last_sync_attempt["openai"] = CoolDownMinutes
  /\ ~connectivity_status["openai"]
  /\ connRet["openai"] = "down"
  /\ \E p \in Callers :
        /\ call[p].at = 0
        /\ ~call[p].force_ai
        /\ "conn:up" \in Events(call[p])

(* The body of an update asks for a model outside what is documented *)
InvalidModel(data) ==
  /\ "primary_model" \in DOMAIN data
  /\ LET md == data.primary_model
     IN \/ "temperature" \in DOMAIN md /\ md.temperature \notin 0..20
        \/ "max_tokens" \in DOMAIN md /\ md.max_tokens <= 0
        \/ "provider" \in DOMAIN md /\ md.provider \notin AIProvider

(* C10: an update of a subject's configuration whose temperature is out of *)
(* range, whose max_tokens is not positive or whose provider is unknown is *)
(* answered 422 and leaves the subject's configuration as it was.          *)
C10_InvalidUpdateRejected ==
  [][ \A r \in AdminRequests :
        ( /\ AdminUpdate(r[1], r[2])
          /\ r[1] \in DOMAIN subject_configs
          /\ InvalidModel(r[2]) ) =>
          /\ AdminStatus(r[1], r[2]) = 422
          /\ subject_configs' = subject_configs ]_vars

(* C11: every member of SubjectMatter has a configuration in the store,    *)
(* from construction on.                                                   *)
C11_EverySubjectConfigured ==
  \A s \in SubjectMatter : s \in DOMAIN subject_configs

(* C12: the configuration the store holds is the one a fresh store loads   *)
(* from the file the store saved: after a restart every subject has the    *)
(* configuration it had before, field for field.                           *)
C12_ConfigurationRoundTrip ==
  [][ Restart =>
        \A s \in DOMAIN subject_configs :
           /\ s \in DOMAIN subject_configs'
           /\ subject_configs'[s] = subject_configs[s] ]_vars

(* The generate_response calls of a whole sweep: every subject in order,  *)
(* each with every scenario in order.                                      *)
SweepCalls ==
  [i \in 1..(Len(SubjectOrder) * Len(Scenarios)) |->
     <<SubjectOrder[((i - 1) \div Len(Scenarios)) + 1], ((i - 1) % Len(Scenarios)) + 1>>]

(* The step in which the sweep takes up the response it awaited *)
Collects == sync.pc = "wait" /\ sync'.pc # "wait"

(* The library after the sweep kept response r for subject s, scenario k:  *)
(* the list of s with one entry more at its end, the other lists as they   *)
(* were.                                                                   *)
KeptIn(s, k, r) ==
  /\ DOMAIN fallback_responses' = (DOMAIN fallback_responses) \cup {s}
  /\ \A x \in DOMAIN fallback_responses : x # s =>
         fallback_responses'[x] = fallback_responses[x]
  /\ LET old == IF s \in DOMAIN fallback_responses THEN fallback_responses[s] ELSE << >>
         new == fallback_responses'[s]
     IN /\ Len(new) = Len(old) + 1
        /\ SubSeq(new, 1, Len(old)) = old
        /\ new[Len(new)].subject = s
        /\ new[Len(new)].context_type = Scenarios[k][1][2]
        /\ new[Len(new)].response_text = r.text
        /\ new[Len(new)].mood = r.mood
        /\ new[Len(new)].animation_type = r.animation_type
        /\ new[Len(new)].weight >= 1

ModelCallFails(p) ==
  /\ call'[p].id = call[p].id
  /\ \/ Count(call'[p].trace, "primary:fail") > Count(call[p].trace, "primary:fail")
     \/ Count(call'[p].trace, "secondary:fail") > Count(call[p].trace, "secondary:fail")

(* The primary model of the subject can be attempted: its provider has a   *)
(* client, the retry loop has a turn and the prompt formats.               *)
PrimaryAttemptable(s, ctx) ==
  /\ s \in DOMAIN subject_configs
  /\ subject_configs[s].primary_model.provider \in providers
  /\ subject_configs[s].primary_model.retry_attempts > 0
  /\ FormatUserPrompt(subject_configs, s, ctx) = "ok"

(* The config makes cache_response raise when a completion is stored *)
CacheWriteFails(cfgv) ==
  cfgv.cache_responses /\ CacheWriteRaises(cfgv.cache_duration_hours)

(* C14: a failed model call changes neither the connectivity tracker nor   *)
(* the cache; a non-forced call that follows a call answered statically    *)
(* after its primary model failed, finds no cache entry and the provider   *)
(* up, awaits the primary model again, and returns source "ai" when the    *)
(* primary model answers and the cache write, if one is made, does not     *)
(* raise.                                                                  *)
C14_Recovery ==
  [][ \A p \in Callers :
        /\ ModelCallFails(p) =>
              UNCHANGED <<connectivity_status, last_sync_attempt, response_cache>>
        /\ ( /\ Starts(p)
             /\ call'[p].prevFailed
             /\ ~call'[p].force_ai
             /\ "cache:hit" \notin Events(call'[p])
             /\ "conn:up" \in Events(call'[p])
             /\ PrimaryAttemptable(call'[p].subject, call'[p].context) )
           => call'[p].pc = "primary"
        /\ ( /\ call[p].pc = "primary"
             /\ call[p].prevFailed
             /\ ~call[p].force_ai
             /\ call'[p].id = call[p].id
             /\ "primary:ok" \in Events(call'[p])
             /\ ~CacheWriteFails(ConfigOf(call[p], subject_configs)) )
           => /\ call'[p].outcome = "returned"
              /\ call'[p].result[1].source = "ai" ]_vars

(* After a call that ended in a static response because its primary model  *)
(* failed, a non-forced call for the same subject returned source "ai".    *)
C14_Witness ==
  \E p \in Callers :
    /\ Done(call[p])
    /\ call[p].prevFailed
    /\ ~call[p].force_ai
    /\ call[p].trace = <<"cache:miss", "conn:up", "primary:ok">>
    /\ call[p].outcome = "returned"
    /\ call[p].result[1].source = "ai"

(* C15: a non-forced call that misses the cache and is told by the         *)
(* connectivity check that the primary provider is down never calls the    *)
(* primary model: after the check comes the secondary model or the static  *)
(* response.                                                               *)
C15_PreCheckSkipsPrimary ==
  \A p \in Callers :
    LET c == call[p]
    IN (~c.force_ai /\ "conn:down" \in Events(c)) =>
         /\ PrimaryCalls(c) = 0
         /\ "cache:hit" \notin Events(c)
         /\ c.pc \in {"secondary", "done"}
         /\ \A i \in DOMAIN c.trace :
               (c.trace[i] = "conn:down" /\ i < Len(c.trace)) =>
                  c.trace[i + 1] \in {"secondary:ok", "secondary:fail",
                                      "secondary:none", "unexpected"}

(* A call missed the cache, found the provider down and was answered       *)
(* statically without a call of the primary model.                         *)
C15_Witness ==
  \E p \in Callers :
    /\ Done(call[p])
    /\ ~call[p].force_ai
    /\ call[p].trace = <<"cache:miss", "conn:down", "secondary:none", "static">>
    /\ call[p].result[1].source = "fallback"

(* C16: a call with force_ai reads no cache entry, makes no connectivity   *)
(* check and leaves the tracker as it is, and awaits the primary model     *)
(* whenever that can be attempted, also when the tracker records the       *)
(* provider as down and the cache holds an unexpired entry for the call.   *)
C16_ForceAttemptsPrimary ==
  [][ \A p \in Callers :
        ( /\ Starts(p)
          /\ call'[p].force_ai
          /\ call'[p].subject \in DOMAIN subject_configs ) =>
          /\ Events(call'[p]) \cap (CacheEvents \cup ConnEvents) = {}
          /\ UNCHANGED <<connectivity_status, last_sync_attempt, response_cache>>
          /\ PrimaryAttemptable(call'[p].subject, call'[p].context) =>
                call'[p].pc = "primary" /\ call'[p].trace = << >> ]_vars

(* A forced call awaits the primary model although the tracker recorded    *)
(* the provider as down and an unexpired cache entry existed at its start. *)
C16_Witness ==
  \E p \in Callers :
    /\ call[p].force_ai
    /\ call[p].recordedDown
    /\ call[p].validAtStart
    /\ call[p].pc = "primary"
    /\ call[p].trace = << >>

(* An entry without the source of its response *)
Unsourced(e) == [e EXCEPT !.response.source = ""]

(* C17: the cache gets an entry, or an entry gets another text or expiry,  *)
(* only in a step in which the primary model answers a call whose config   *)
(* has cache_responses set; the entry is the dict of the returned response *)
(* under the call's key and expires cache_duration_hours of that config    *)
(* later.  A response of the secondary model, a static response or a       *)
(* cache hit writes nothing.                                               *)
C17_CacheWrites ==
  [][ \A key \in DOMAIN response_cache' :
        ( \/ key \notin DOMAIN response_cache
          \/ Unsourced(response_cache[key]) # Unsourced(response_cache'[key]) ) =>
          \E p \in Callers :
             LET cfgv == ConfigOf(call[p], subject_configs)
             IN /\ call[p].pc = "primary"
                /\ call'[p].pc = "done"
                /\ call'[p].outcome = "returned"
                /\ call'[p].result[1].source = "ai"
                /\ call'[p].trace[Len(call'[p].trace)] = "primary:ok"
                /\ key = GenerateCacheKey(call[p].subject, call[p].context)
                /\ cfgv.cache_responses
                /\ response_cache'[key].response = ToDict(call'[p].result[1])
                /\ response_cache'[key].expiry =
                      now + cfgv.cache_duration_hours * MinutesPerHour ]_vars

(* The primary model answered a call of a subject with a cache duration of *)
(* one hour, and the cache holds the response for that long.               *)
C17_Witness ==
  \E p \in Callers :
    LET key == GenerateCacheKey(call[p].subject, call[p].context)
    IN /\ Done(call[p])
       /\ call[p].outcome = "returned"
       /\ call[p].result[1].source = "ai"
       /\ key \in DOMAIN response_cache
       /\ response_cache[key].response.text = call[p].result[1].text
       /\ call[p].subject \in DOMAIN subject_configs
       /\ subject_configs[call[p].subject].cache_duration_hours = 1
       /\ response_cache[key].expiry = now + MinutesPerHour

(* C18: a call whose primary model sent an empty completion, or a response *)
(* without one, called the primary model once and went on to the next      *)
(* tier: it is answered by the secondary model or statically.              *)
C18_MalformedNotRetried ==
  \A p \in Callers :
    LET c == call[p]
    IN (Done(c) /\ c.malformed) =>
         /\ PrimaryCalls(c) = 1
         /\ c.outcome = "returned"
         /\ c.result[1].source \in {"fallback_ai", "fallback"}

(* C19: the first attempt of the primary model follows no sleep; after the *)
(* k-th failed attempt the loop sleeps retry_delay * k before the next     *)
(* attempt; nothing is slept after the last attempt; the secondary model   *)
(* is called at most once.                                                 *)
C19_LinearBackoff ==
  \A p \in Callers :
    LET c == call[p]
        fails == Count(c.trace, "primary:fail")
    IN (~c.malformed /\ c.n >= 1) =>
         /\ Len(c.sleeps) = (IF fails = c.n THEN c.n - 1 ELSE fails)
         /\ \A k \in DOMAIN c.sleeps : c.sleeps[k] = DefaultRetryDelay * k
         /\ \A k \in DOMAIN c.sleeps : k > 1 => c.sleeps[k] > c.sleeps[k - 1]
         /\ SecondaryCalls(c) <= 1

(* The candidates for (subject, context type, mood): the subject's         *)
(* responses of that context type, all of them if there is none; of these  *)
(* the ones of that mood, unless there is none or no mood is given.        *)
Candidates(lib, s, ct, m) ==
  LET all == {lib[s][i] : i \in DOMAIN lib[s]}
      ofType == {r \in all : r.context_type = ct}
      stage1 == IF ofType = {} THEN all ELSE ofType
      ofMood == {r \in stage1 : r.mood = m}
  IN IF m = "" \/ ofMood = {} THEN stage1 ELSE ofMood

(* C20: the static response selected for a subject that has responses is   *)
(* one of the candidates of the two-stage filter, and a call answered      *)
(* statically carries the text, mood and animation of a candidate for its  *)
(* context type (default general) and mood (default cheerful); for         *)
(* task_completion, general and celebratory that is the one response       *)
(* authored for them.                                                      *)
C20_TwoStageSelection ==
  /\ \A s \in DOMAIN fallback_responses, ct \in ContextTypes, m \in Moods :
        fallback_responses[s] # << >> =>
           LET r == GetFallbackResponse(fallback_responses, s, ct, m)
           IN r.choices # {} /\ r.choices \subseteq Candidates(fallback_responses, s, ct, m)
  /\ \A p \in Callers :
        LET c == call[p]
            ct == CtxGet(c.context, "context_type", "general")
            m == CtxGet(c.context, "mood", "cheerful")
        IN ( /\ Done(c)
             /\ "static" \in Events(c)
             /\ c.subject \in DOMAIN fallback_responses
             /\ fallback_responses[c.subject] # << >> ) =>
             /\ c.outcome = "returned"
             /\ c.result[1].source = "fallback"
             /\ \E fb \in Candidates(fallback_responses, c.subject, ct, m) :
                   /\ c.result[1].text = fb.response_text
                   /\ c.result[1].mood = fb.mood
                   /\ c.result[1].animation_type = fb.animation_type
             /\ (c.subject = "task_completion" /\ ct = "general" /\ m = "celebratory") =>
                   /\ c.result[1].mood = "celebratory"
                   /\ c.result[1].animation_type = "celebration_bounce"

(* task_completion with general and celebratory, the provider down and no  *)
(* secondary model: the call was answered with the response authored for   *)
(* them.                                                                   *)
C20_Witness ==
  \E p \in Callers :
    /\ Done(call[p])
    /\ call[p].subject = "task_completion"
    /\ call[p].context = CtxCelebratoryGeneral
    /\ call[p].trace = <<"cache:miss", "conn:down", "secondary:none", "static">>
    /\ call[p].result[1].source = "fallback"
    /\ call[p].result[1].mood = "celebratory"
    /\ call[p].result[1].text = LoadFallbackResponses["task_completion"][1].response_text

----------------------------------------------------------------------------
(* The step in which the primary model answers p's call *)
PrimaryAnswers(p) ==
  /\ call[p].pc = "primary"
  /\ call'[p].pc = "done"
  /\ Count(call'[p].trace, "primary:ok") = 1

(* Two configs agree in what a call reads of them before its model call:   *)
(* the primary model and the prompt template.                              *)
SameModelFields(a, b) ==
  a.primary_model = b.primary_model /\ a.context_template = b.context_template

(* Two configs agree in what a call reads of them after its model call:    *)
(* the cache flag and the cache duration.                                  *)
SameCacheFields(a, b) ==
  a.cache_responses = b.cache_responses /\ a.cache_duration_hours = b.cache_duration_hours

(* C21: the configuration a generate_response call reads after its         *)
(* primary call (cache flag and duration) belongs to the same whole        *)
(* SubjectMatterConfig as the one it read before the call (primary model,  *)
(* template): the config it reads at the end differs from the config it    *)
(* started with in none of the fields read at the start, or in none of the *)
(* fields read at the end.                                                 *)
C21_AtomicConfigUpdate ==
  [][ \A p \in Threads :
        PrimaryAnswers(p) =>
          LET old == call[p].cfgStart[1]
              cur == ConfigOf(call[p], subject_configs)
          IN SameModelFields(old, cur) \/ SameCacheFields(old, cur) ]_vars

----------------------------------------------------------------------------
(* Racing request threads *)

(* This step adds event e to the trace of p's call *)
Gains(p, e) ==
  Count(call'[p].trace, e) >
     (IF call'[p].id = call[p].id THEN Count(call[p].trace, e) ELSE 0)

(* The cache key of p's call after this step *)
KeyOf(p) == GenerateCacheKey(call'[p].subject, call'[p].context)

(* C22: however the cache reads, writes and purges of the calls for one    *)
(* key interleave, a cache read ends in one of two ways: it returns the    *)
(* response of the entry the key holds, whole and judged by that entry's   *)
(* own expiry, or it returns nothing (the key holds no entry, or an        *)
(* expired one that the read removes).  It never ends in an exception.     *)
C22_ConcurrentCacheAccess ==
  [][ \A p \in Threads :
        /\ Gains(p, "cache:hit") =>
              /\ KeyOf(p) \in DOMAIN response_cache
              /\ now < response_cache[KeyOf(p)].expiry
              /\ response_cache'[KeyOf(p)].expiry = response_cache[KeyOf(p)].expiry
              /\ response_cache'[KeyOf(p)].response.text =
                    response_cache[KeyOf(p)].response.text
        /\ Gains(p, "cache:miss") => KeyOf(p) \notin DOMAIN response_cache
        /\ Gains(p, "purge") => KeyOf(p) \notin DOMAIN response_cache'
        /\ ~Gains(p, "purge:absent") ]_vars

(* C27: the del of a call that found an expired entry removes that entry   *)
(* and no other: if the key holds an unexpired entry by then, the entry    *)
(* stays; and the del does not raise when the key holds nothing any more.  *)
C27_PurgeUnderInterleaving ==
  [][ \A p \in Threads :
        (call[p].pc = "purge" /\ call'[p].pc # "purge") =>
           /\ call'[p].exc # "KeyError"
           /\ ( /\ KeyOf(p) \in DOMAIN response_cache
                /\ now < response_cache[KeyOf(p)].expiry ) =>
                 /\ KeyOf(p) \in DOMAIN response_cache'
                 /\ response_cache'[KeyOf(p)] = response_cache[KeyOf(p)] ]_vars

(* The config an administrative update writes when it is applied to base *)
Written(base, c) == AdminApply(base, c.req[1]).config

(* Thread q has completed an update of subject s *)
Updated(q, s) ==
  /\ call[q].pc = "done"
  /\ call[q].subject = s
  /\ Count(call[q].trace, "admin:200") = 1

(* C23: an update of subject s leaves the configuration of every other     *)
(* subject as it was and adds or removes no subject; when an update of s   *)
(* completes and no other update of s is under way, the configuration of s *)
(* is one that a single update wrote: the one this update wrote over what  *)
(* it read, or, if another thread has updated s as well, the one either of *)
(* them wrote over what it read or over what the other wrote.              *)
C23_UpdateReplacesOnlySubject ==
  [][ \A p \in Threads :
        (call[p].pc = "admin" /\ call'[p] # call[p]) =>
           LET s == call[p].subject
               own == Written(call[p].cfgStart[1], call[p])
           IN /\ DOMAIN subject_configs' = DOMAIN subject_configs
              /\ \A x \in DOMAIN subject_configs :
                    x # s => subject_configs'[x] = subject_configs[x]
              /\ ( /\ Gains(p, "admin:200")
                   /\ \A q \in Threads \ {p} :
                         ~(call[q].pc = "admin" /\ call[q].subject = s) ) =>
                    \/ subject_configs'[s] = own
                    \/ \E q \in Threads \ {p} :
                          /\ Updated(q, s)
                          /\ LET other == Written(call[q].cfgStart[1], call[q])
                             IN subject_configs'[s] \in
                                  {other, Written(other, call[p]), Written(own, call[q])} ]_vars

(* What holds of a call at every moment: it has called the primary model   *)
(* at most as often as the retry_attempts it started its loop with, and    *)
(* the secondary model at most once; and, once it is over, if its config   *)
(* had retry_attempts 0 and it was not served from the cache, it has not   *)
(* called the primary model and returned a response of the secondary model *)
(* or a static one.                                                        *)
BoundedCalls(c) ==
  /\ PrimaryCalls(c) <= c.n
  /\ SecondaryCalls(c) <= 1
  /\ ( /\ Done(c)
       /\ c.cfgStart # << >>
       /\ c.cfgStart[1].primary_model.retry_attempts = 0
       /\ "cache:hit" \notin Events(c) ) =>
         /\ PrimaryCalls(c) = 0
         /\ c.outcome = "returned"
         /\ c.result[1].source \in {"fallback_ai", "fallback"}

(* C24: every generate_response call comes to its end, given that every    *)
(* model call comes back; it calls the primary model at most               *)
(* retry_attempts times and the secondary model at most once; with         *)
(* retry_attempts 0 it never calls the primary model and still returns a   *)
(* response of the secondary model or a static one.                        *)
C24_TerminatesWithinBounds ==
  /\ [](\A p \in Callers : BoundedCalls(call[p]))
  /\ \A p \in Callers : (call[p].pc \in {"primary", "secondary"}) ~> Done(call[p])

(* A call under retry_attempts 0 that did not call the primary model and   *)
(* was answered by the secondary model.                                    *)
C24_Witness ==
  \E p \in Callers :
    /\ Done(call[p])
    /\ call[p].cfgStart # << >>
    /\ call[p].cfgStart[1].primary_model.retry_attempts = 0
    /\ PrimaryCalls(call[p]) = 0
    /\ SecondaryCalls(call[p]) = 1
    /\ call[p].result[1].source = "fallback_ai"

(* Every static response has a weight of at least 1 *)
WeightsPositive(lib) ==
  \A s \in DOMAIN lib : \A i \in DOMAIN lib[s] : lib[s][i].weight >= 1

(* The step keeps every list and every response in it, in place, and adds  *)
(* at most one response, at the end of one list.                           *)
AppendsOnly ==
  /\ DOMAIN fallback_responses \subseteq DOMAIN fallback_responses'
  /\ \A s \in DOMAIN fallback_responses :
        /\ Len(fallback_responses'[s]) >= Len(fallback_responses[s])
        /\ SubSeq(fallback_responses'[s], 1, Len(fallback_responses[s])) =
              fallback_responses[s]
  /\ Cardinality({s \in DOMAIN fallback_responses' :
         Len(fallback_responses'[s]) >
           (IF s \in DOMAIN fallback_responses THEN Len(fallback_responses[s]) ELSE 0)}) <= 1
  /\ \A s \in DOMAIN fallback_responses' :
        Len(fallback_responses'[s]) <=
           (IF s \in DOMAIN fallback_responses THEN Len(fallback_responses[s]) ELSE 0) + 1

CtxAsMap(ctx) == [k \in CtxKeys(ctx) |-> CtxValue(ctx, k)]

(* Two calls are for the same subject and for equal context mappings *)
SameRequest(c, d) ==
  c.subject = d.subject /\ CtxAsMap(c.context) = CtxAsMap(d.context)

(* The call got a completion of the primary model and cached it *)
WroteEntry(c) ==
  Done(c) /\ c.trace # << >> /\ c.trace[Len(c.trace)] = "primary:ok"

(* C26: the cache key is the same for two requests exactly when they name  *)
(* the same subject and equal context mappings, in whatever order the keys *)
(* of the context were inserted; a call that finds an entry in the cache   *)
(* is a non-forced one whose subject and context mapping are those of the  *)
(* call that wrote the entry, and a non-forced call for the subject and    *)
(* mapping of a written entry finds it.                                    *)
C26_CacheKeyIsolation ==
  /\ [] \A s1, s2 \in SubjectMatter : \A c1, c2 \in KeyContexts :
          (GenerateCacheKey(s1, c1) = GenerateCacheKey(s2, c2)) <=>
             (s1 = s2 /\ CtxAsMap(c1) = CtxAsMap(c2))
  /\ [][ \A p \in Threads :
           (call[p].pc = "idle" /\ call'[p].pc # "idle") =>
              LET c == call'[p]
                  written == \E q \in Threads : WroteEntry(call[q]) /\ SameRequest(call[q], c)
              IN /\ ("cache:hit" \in Events(c)) => (~c.force_ai /\ written)
                 /\ (~c.force_ai /\ written) => c.trace[1] = "cache:hit" ]_vars

(* A call found the entry another call wrote for the same subject and the  *)
(* same pairs inserted in the opposite order.                              *)
C26_Witness ==
  \E p, q \in Threads :
     /\ p # q
     /\ WroteEntry(call[q])
     /\ "cache:hit" \in Events(call[p])
     /\ call[p].subject = call[q].subject
     /\ call[p].context # call[q].context
     /\ CtxAsMap(call[p].context) = CtxAsMap(call[q].context)

NonStatic == AIProvider \ {"fallback"}

(* Every provider but the static one is recorded reachable, checked at t *)
SeededAt(st, la, t) ==
  \A pr \in NonStatic : st[pr] /\ la[pr] = t

(* check_connectivity answers from the record, and the record says yes *)
AnswersUpUnprobed(pr) ==
  \A env \in BOOLEAN :
     LET r == CheckConnectivity(pr, connectivity_status, last_sync_attempt, now, env)
     IN r.ret /\ ~r.probed /\ r.status = connectivity_status /\ r.last = last_sync_attempt

(* C28: construction records every provider but the static one reachable,  *)
(* checked at the instant of construction, at the first start and at every *)
(* restart; no step made less than five minutes after a provider's last    *)
(* check changes its record, unless it is a restart; so in the first five  *)
(* minutes every provider is recorded reachable, check_connectivity says   *)
(* so without probing whatever the environment holds, and no call or       *)
(* report was told that a provider is down.                                *)
C28_StartupConnectivity ==
  /\ SeededAt(connectivity_status, last_sync_attempt, 0)
  /\ [][Restart => SeededAt(connectivity_status', last_sync_attempt', now')]_vars
  /\ [][\A pr \in NonStatic :
          (now' - last_sync_attempt[pr] < CoolDownMinutes /\ ~Restart) =>
             /\ connectivity_status'[pr] = connectivity_status[pr]
             /\ last_sync_attempt'[pr] = last_sync_attempt[pr]]_vars
  /\ [](now < CoolDownMinutes =>
          /\ \A pr \in NonStatic :
                /\ connectivity_status[pr]
                /\ AnswersUpUnprobed(pr)
                /\ connRet[pr] # Tag(FALSE)
          /\ \A p \in Callers : "conn:down" \notin Events(call[p]))

(* Five minutes after the first start and three after a restart, with the  *)
(* record still the one of the restart, a report made since the restart    *)
(* said that every provider is up, and a check would say so again without  *)
(* probing.                                                                *)
C28_Witness ==
  /\ now = CoolDownMinutes
  /\ SeededAt(connectivity_status, last_sync_attempt, 2)
  /\ \A pr \in NonStatic : AnswersUpUnprobed(pr) /\ connRet[pr] = Tag(TRUE)

(* What follows a model error once the attempts are used up: the fallback  *)
(* step, which calls the secondary model, finds none, or fails to format   *)
(* the prompt for it.                                                      *)
FallbackStepEvents == {"secondary:ok", "secondary:fail", "secondary:none", "unexpected"}

(* C29: a call in which the formatting of the prompt or the cache write    *)
(* raised an exception that is not AIServiceError ends there with a static *)
(* response, and the secondary model was not called in it; a call never    *)
(* goes from a failed primary attempt to the static response directly: it  *)
(* retries, or it enters the fallback step, and with the attempts used up, *)
(* a secondary model configured and a prompt that formats, it calls the    *)
(* secondary model.                                                        *)
C29_UnexpectedErrorShortcut ==
  \A p \in Callers :
     LET c == call[p]
         n == Len(c.trace)
     IN /\ \A i \in 1..n :
              c.trace[i] = "unexpected" =>
                 /\ Done(c)
                 /\ i = n - 1
                 /\ c.trace[n] = "static"
                 /\ SecondaryCalls(c) = 0
                 /\ c.outcome = "returned" /\ c.result[1].source = "fallback"
        /\ \A i \in 1..n :
              c.trace[i] = "primary:fail" =>
                 IF i = n
                   THEN c.pc \in {"primary", "secondary"}
                   ELSE c.trace[i + 1] \in {"primary:fail", "primary:ok"} \cup FallbackStepEvents
        /\ (c.pc = "secondary") =>
              /\ "unexpected" \notin Events(c)
              /\ \/ "conn:down" \in Events(c)
                 \/ n > 0 /\ c.trace[n] = "primary:fail"

(* The primary model answered, the cache write raised, and the call        *)
(* returned a static response although a secondary model of an initialised *)
(* provider is configured.                                                 *)
C29_Witness ==
  \E p \in Callers :
     LET c == call[p]
         n == Len(c.trace)
     IN /\ Done(c) /\ n >= 3
        /\ SubSeq(c.trace, n - 2, n) = <<"primary:ok", "unexpected", "static">>
        /\ c.result[1].source = "fallback"
        /\ c.cfgStart[1].fallback_model[1].provider \in providers

(* The cache lookup of the call returned nothing: no entry, or an expired  *)
(* one.                                                                    *)
Missed(c) == c.trace # << >> /\ c.trace[1] \in {"cache:miss", "cache:expired"}

(* C30: calls are not coalesced.  A non-forced call whose lookup returned  *)
(* nothing and whose provider is up calls the primary model itself,        *)
(* whatever another call for the same key is doing; when the model answers *)
(* it, it returns that answer with source "ai", the cache holds one entry  *)
(* for the key, which is the dict of that answer, and the answer another   *)
(* call returned before stays the one that call received.                  *)
C30_NoCoalescing ==
  [][ \A p \in Threads :
        /\ ( /\ ~Done(call[p]) \/ call'[p].id # call[p].id
             /\ Done(call'[p])
             /\ ~call'[p].force_ai
             /\ Missed(call'[p])
             /\ "conn:down" \notin Events(call'[p]) )
           => PrimaryCalls(call'[p]) >= 1
        /\ ( /\ call[p].pc = "primary"
             /\ Missed(call[p])
             /\ Gains(p, "primary:ok") )
           => /\ call'[p].outcome = "returned"
              /\ call'[p].result[1].source = "ai"
              /\ DOMAIN response_cache' = {KeyOf(p)}
              /\ response_cache'[KeyOf(p)].response = ToDict(call'[p].result[1])
              /\ \A q \in Threads \ {p} : call'[q] = call[q] ]_vars

(* Two calls for one key missed an absent entry before either wrote, the   *)
(* model answered them differently, each returned its own answer, and the  *)
(* cache holds the answer of one of them.                                  *)
C30_BothLive ==
  /\ \A p \in Threads :
        /\ Done(call[p]) /\ call[p].trace = <<"cache:miss", "conn:up", "primary:ok">>
        /\ call[p].result[1].source = "ai"
  /\ call["c1"].result[1].text # call["c2"].result[1].text
  /\ DOMAIN response_cache = {GenerateCacheKey("task_completion", CtxEmpty)}
  /\ \E p \in Threads :
        response_cache[GenerateCacheKey("task_completion", CtxEmpty)].response =
           ToDict(call[p].result[1])
====
